---- MODULE Spec2Model ----
(***************************************************************************)
(* NanoClaw.                                                               *)
(*  - Scheduled task engine (src/src/task-scheduler.ts), failure diagnosis *)
(*    (src/src/task-diagnostics.ts), dashboard task actions                *)
(*    (src/unnamed/part_002) and the per-chat queue the scheduler submits  *)
(*    to. The task store (db.js) and the queue (group-queue.js) are not    *)
(*    part of the sources; they are modelled from the specification text.  *)
(*  - Plugin system: capability-gated context (context.ts, kept in         *)
(*    src/docs/MULTI-AGENT.md), registry and event bus                     *)
(*    (src/src/plugins/registry.ts).                                       *)
(*  - IPC transport of the agent side (src/unnamed/part_003) and the tools *)
(*    of the container plugins (src/container/plugins).                    *)
(* Each component has its own specification over its own variables; the    *)
(* variables of the other components stay in their idle state.             *)
(***************************************************************************)
EXTENDS Integers, Sequences, FiniteSets, TLC

\* ------------------------------------------------------------------------
\* Bounds of the model
\* ------------------------------------------------------------------------
MaxRuns == 2
MaxQueue == 1
MaxInbox == 1
MaxDiscovered == 2
MaxWrites == 3
MaxClock == 1
MaxSegments == 2
MaxFiles == 4
MaxCloses == 2
MaxSessions == 2
MaxInputs == 2
MaxHistory == 3
MaxRequests == 2
MaxEvents == 3
MaxToolCalls == 2
MaxOutputs == 3
MaxCalls == 3
MaxTypingCalls == 3
MaxFrames == 4
MaxPushes == 3
MaxSweeps == 3
MaxStarts == 3

\* ------------------------------------------------------------------------
\* Universe
\* ------------------------------------------------------------------------
Tasks == {"t1", "t2"}
TaskOrder == <<"t1", "t2">>
JIDs == {"web:a", "web:b"}
MaxRetriesValues == {0, 1}
\* the requests the environment sends: dashboard actions and inbound messages
DashboardTasks == {"t1"}
MessageJIDs == {"web:a"}
ScheduleTypes == {"once", "cron"}

\* RETRY_DELAYS = [30_000, 120_000, 600_000]
RETRY_DELAYS == <<30000, 120000, 600000>>
\* RETRY_DELAYS[-1] is undefined in the source; setTimeout then fires at once
UndefinedDelay == 0
DelayValues == {UndefinedDelay, 30000, 120000, 600000}

\* `task.max_retries || 3`
DefaultMaxRetries == 3

\* getRecentTaskRuns(task.id, 10)
RecentLimit == 10

\* ------------------------------------------------------------------------
\* Error strings.  An error string is an atom; what the code computes from
\* it (lower-casing, substring tests, the 100-character normalisation) is
\* tabulated below.
\* ------------------------------------------------------------------------
ErrGroupNotFound == "Group not found: folder"
ErrRate == "HTTP 429"
ErrTimeout == "Container timed out after 300s"
ErrModule == "ModuleNotFoundError: requests"
ErrModuleUpper == "MODULENOTFOUNDERROR: REQUESTS "
ErrReset == "Connection reset"
ErrChatRate == "Chat Not Found (rate limit)"
ErrFileNotFound == "File not found"
ErrApiTimeout == "API Error: request timeout"
ErrTooMany == "Too Many Requests"
ErrIdle == "Idle Timeout"
NoError == "null"

AllErrors == {ErrGroupNotFound, ErrRate, ErrTimeout, ErrModule, ErrModuleUpper, ErrReset,
              ErrChatRate, ErrFileNotFound, ErrApiTimeout, ErrTooMany, ErrIdle}
\* what an agent run can fail with in the scheduler model
AgentErrors == {ErrRate, ErrModule, ErrReset}
\* the outcomes drawn for the runs of a task: t1 takes every outcome,
\* t2 is a healthy task whose runs succeed
Outcomes(t) == IF t = "t1" THEN AgentErrors \cup {NoError} ELSE {NoError}

\* currentError.toLowerCase()
ToLowerCase(e) ==
    CASE e = ErrGroupNotFound -> "group not found: folder"
      [] e = ErrRate -> "http 429"
      [] e = ErrTimeout -> "container timed out after 300s"
      [] e = ErrModule -> "modulenotfounderror: requests"
      [] e = ErrModuleUpper -> "modulenotfounderror: requests "
      [] e = ErrReset -> "connection reset"
      [] e = ErrChatRate -> "chat not found (rate limit)"
      [] e = ErrFileNotFound -> "file not found"
      [] e = ErrApiTimeout -> "api error: request timeout"
      [] e = ErrTooMany -> "too many requests"
      [] e = ErrIdle -> "idle timeout"
      [] OTHER -> e

\* lowerError.includes(kw), for the keywords the diagnoser looks for
Includes(lower, kw) ==
    CASE lower = "group not found: folder" -> kw \in {"group not found", "not found"}
      [] lower = "http 429" -> kw \in {"429"}
      [] lower = "container timed out after 300s" -> kw \in {"timed out"}
      [] lower = "chat not found (rate limit)" ->
            kw \in {"chat not found", "not found", "rate limit"}
      [] lower = "file not found" -> kw \in {"not found"}
      [] lower = "api error: request timeout" -> kw \in {"api error", "timeout"}
      [] lower = "too many requests" -> kw \in {"too many requests"}
      [] lower = "idle timeout" -> kw \in {"idle timeout", "timeout"}
      [] OTHER -> FALSE

\* normalize = e.slice(0, 100).toLowerCase().trim()
Normalize(e) ==
    CASE e = ErrModuleUpper -> "modulenotfounderror: requests"
      [] OTHER -> ToLowerCase(e)

\* ------------------------------------------------------------------------
\* State
\* ------------------------------------------------------------------------
VARIABLES
    attr,        \* immutable columns of each task: max_retries, schedule_type, chat_jid
    groups,      \* JIDs whose group folder is registered (deps.registeredGroups())
    tasks,       \* mutable columns of the task table
    log,         \* Task Run Log of each task, oldest first
    timers,      \* pending retry timers: timers[t][delay] = number of timers
    pending,     \* per-chat queue: items waiting, head first
    running,     \* per-chat queue: the item in execution
    agents,      \* number of agent subprocesses alive per JID
    inbox,       \* IPC message files in the inbox of the JID's agent
    notified,    \* failure notifications sent for the task since its last success
    lastDelay,   \* delay of the latest retry scheduled since the last success (-1: none)
    wasCompleted \* the task's status has been set to completed at some time

schedulerVars == <<attr, groups, tasks, log, timers, pending, running, agents, inbox,
                   notified, lastDelay, wasCompleted>>

\* State of the capability-gated plugin context (context.ts)
VARIABLES
    caps,        \* manifest.capabilities of the plugin the context is built for
    lastCall     \* the latest call of a service method through a context

contextVars == <<caps, lastCall>>

NoCall == [ctx |-> "-", service |-> "-", method |-> "-", result |-> [kind |-> "none"]]

ContextIdle == caps = {} /\ lastCall = NoCall

\* State of the plugin registry (registry.ts)
VARIABLES
    discovered,  \* what discover() returns: <<[manifest, dir], ...>> in scan order
    plugins,     \* the Map name -> directory of the loaded plugin
    loadOrder,   \* names in the order they were loaded
    emitted,     \* events emitted on services.events, oldest first
    warned,      \* names logged with "already loaded, skipping"
    attempts,    \* loadPlugin / unloadPlugin calls that got past their first check
    loadJob,     \* progress of loadAll()
    unloadJob    \* progress of unloadAll()

registryVars == <<discovered, plugins, loadOrder, emitted, warned, attempts,
                  loadJob, unloadJob>>

NoJob == [state |-> "none", queue |-> <<>>, order |-> <<>>, error |-> "none",
          culprit |-> "none"]

RegistryEmpty ==
    /\ plugins = <<>>
    /\ loadOrder = <<>>
    /\ emitted = <<>>
    /\ warned = {}
    /\ attempts = <<>>
    /\ loadJob = NoJob
    /\ unloadJob = NoJob

RegistryIdle == discovered = <<>> /\ RegistryEmpty

\* State of the event bus (events.ts), for one event name
VARIABLES
    handlers,    \* the Set of handlers registered on the event
    emitRun,     \* the promise emit() returned: idle (not called), pending, resolved, rejected
    calls,       \* how often the running emit has invoked each handler
    promises     \* per handler of the running emit: the state of its Promise.race

busVars == <<handlers, emitRun, calls, promises>>

Handlers == {"h1", "h2", "h3"}

BusIdle ==
    /\ handlers = {}
    /\ emitRun = "idle"
    /\ calls = [h \in Handlers |-> 0]
    /\ promises = [h \in Handlers |-> "none"]

\* State of an agent's IPC input directory (its inbox)
VARIABLES
    clock,       \* Date.now() in milliseconds
    inputDir,    \* IPC_INPUT_DIR: file name -> parsed content of the .json files
    written,     \* the texts written into the inbox, in the order of the writes
    drained      \* the texts the drains returned so far, in order

inputVars == <<clock, inputDir, written, drained>>

InputIdle ==
    /\ clock = 0
    /\ inputDir = <<>>
    /\ written = <<>>
    /\ drained = <<>>

\* State of the IPC output side: writeIpcFile and the tools that write IPC files
VARIABLES
    cwd,         \* process.cwd() of the MCP server process
    lastWrite,   \* the latest write: the directory asked for and how the call ended
    created      \* the file and the directories the latest write created

outputVars == <<cwd, lastWrite, created>>

NoWrite == [by |-> "-", dir |-> [abs |-> TRUE, segs |-> <<>>], result |-> "none"]

Nothing == [files |-> {}, dirs |-> {}]

OutputIdle ==
    /\ cwd = <<>>
    /\ lastWrite = NoWrite
    /\ created = Nothing

\* State of one inbox directory with a writer and a drain running side by side
VARIABLES
    inboxFiles,  \* directory entries: file name -> how much of the content is there
    writerPc,    \* position of the writer inside writeIpcFile
    drainRun,    \* position of drainIpcInput: the listing it still has to go through
    consumed     \* every file a drain has read: its name, what it read, what it did

transferVars == <<inboxFiles, writerPc, drainRun, consumed>>

NoDrain == [pc |-> "idle", queue |-> <<>>, sawTmp |-> FALSE]

TransferIdle ==
    /\ inboxFiles = <<>>
    /\ writerPc = [pc |-> "idle", id |-> 0]
    /\ drainRun = NoDrain
    /\ consumed = {}

\* State of one agent runner and its inbox (main, runQuery, waitForIpcMessage)
VARIABLES
    sentinel,      \* the file IPC_INPUT_DIR/_close exists
    inputCount,    \* message files waiting in IPC_INPUT_DIR
    agentPc,       \* where the agent runner is
    queries,       \* queries started by the running session
    inputsWritten, \* message files written so far
    closesWritten, \* _close sentinels written so far
    closesSeen,    \* times shouldClose() returned true
    sessions,      \* sessions started so far, and how many of them have ended
    updates,       \* session-update payloads main has written in the running session
    closedDuringQuery, \* runQuery's flag: the latest query consumed the sentinel
    staleSentinel  \* the sentinel in the inbox was written before the agent was spawned

updateVars == <<updates, closedDuringQuery>>

agentVars == <<sentinel, inputCount, agentPc, queries, inputsWritten, closesWritten,
               closesSeen, sessions, updateVars, staleSentinel>>

AgentIdle ==
    /\ sentinel = FALSE
    /\ inputCount = 0
    /\ agentPc = "exited"
    /\ queries = 0
    /\ inputsWritten = 0
    /\ closesWritten = 0
    /\ closesSeen = 0
    /\ sessions = [started |-> 0, ended |-> 0]
    /\ updates = 0
    /\ closedDuringQuery = FALSE
    /\ staleSentinel = FALSE

\* State of one call of diagnoseTaskFailure
VARIABLES
    errorArg, \* the error string of the failed run
    runsArg,   \* the run logs handed in, oldest first
    returned     \* what the call returned

diagnosisVars == <<errorArg, runsArg, returned>>

NoDiagnosis == [pattern |-> "none", recommendation |-> "none"]

DiagnosisIdle ==
    /\ errorArg = NoError
    /\ runsArg = <<>>
    /\ returned = NoDiagnosis

\* State of the task store as the task requests of the dashboard and of the
\* agents' task tools see it
VARIABLES
    store,       \* the rows of scheduled_tasks by id
    runLogs,     \* the number of run-log rows by task id
    taskFiles,   \* IPC files in the tasks directory, oldest first
    request      \* the latest request served: what it was and how it ended

requestVars == <<store, runLogs, taskFiles, request>>

NoRow == [exists |-> FALSE, status |-> "deleted"]

NoRequest == [n |-> 0, via |-> "-", id |-> "-", action |-> "-", response |-> "none"]

RequestIdle ==
    /\ store = <<>>
    /\ runLogs = <<>>
    /\ taskFiles = <<>>
    /\ request = NoRequest

\* State around the Discord channel (DiscordChannel, its opts callbacks)
VARIABLES
    chats,         \* opts.registeredGroups(): chat JID -> folder ("-": not registered)
    chatNames,     \* chat JIDs whose name was stored (updateChatName, onChatMetadata)
    onMessageLog,  \* the calls of opts.onMessage, oldest first
    registerLog,   \* the calls of opts.registerGroup, oldest first
    ownerDmChannelId, \* this.ownerDmChannelId
    event          \* the latest MessageCreate event handled, and their number

discordVars == <<chats, chatNames, onMessageLog, registerLog, ownerDmChannelId, event>>

NoEvent == [n |-> 0, channelId |-> "-", dm |-> FALSE, author |-> "-"]

DiscordIdle ==
    /\ chats = <<>>
    /\ chatNames = {}
    /\ onMessageLog = <<>>
    /\ registerLog = <<>>
    /\ ownerDmChannelId = "null"
    /\ event = NoEvent

\* State of the MCP server of one agent: the tools of the groups and tasks plugins
VARIABLES
    toolCtx,     \* chatJid, groupFolder and isMain of the agent (its environment)
    tasksOut,    \* the IPC files written into TASKS_DIR, oldest first
    toolCall     \* the latest tool call: its arguments and what it returned

toolVars == <<toolCtx, tasksOut, toolCall>>

NoToolCtx == [chatJid |-> "-", groupFolder |-> "-", isMain |-> FALSE]

NoToolCall == [n |-> 0, tool |-> "-", args |-> <<>>, isError |-> FALSE]

ToolIdle ==
    /\ toolCtx = NoToolCtx
    /\ tasksOut = <<>>
    /\ toolCall = NoToolCall

\* State of one task run seen from runTask: its idle timer
VARIABLES
    runPc,       \* "none", "agent" (runContainerAgent is awaited), "done"
    idleTimer,   \* ticks until the idle timer fires; -1: null, cleared or fired
    quiet,       \* ticks since the run started or since its latest result
    closes,      \* closeStdin calls since the run started or since its latest result
    outputs,     \* streamed outputs of the run so far
    latest,      \* streamedOutput.result of the latest streamed output
    sending      \* a stream callback stands at `await deps.sendMessage(...)`

idleVars == <<runPc, idleTimer, quiet, closes, outputs, latest, sending>>

IdleRunIdle ==
    /\ runPc = "none"
    /\ idleTimer = -1
    /\ quiet = 0
    /\ closes = 0
    /\ outputs = 0
    /\ latest = "null"
    /\ sending = FALSE

\* State of startSchedulerLoop
VARIABLES
    schedulerRunning,  \* the module's flag
    loopTimers,        \* armed setTimeout(loop, SCHEDULER_POLL_INTERVAL) timers
    sweeps,            \* executions of loop so far
    starts,            \* calls of startSchedulerLoop so far
    dueNow,            \* the tasks getDueTasks() returns now
    lastSubmitted,     \* the tasks the latest sweep passed to enqueueTask, in order
    lastThrown         \* the latest sweep ended in its catch block

loopVars == <<schedulerRunning, loopTimers, sweeps, starts, dueNow, lastSubmitted, lastThrown>>

LoopIdle ==
    /\ schedulerRunning = FALSE
    /\ loopTimers = 0
    /\ sweeps = 0
    /\ starts = 0
    /\ dueNow = {}
    /\ lastSubmitted = <<>>
    /\ lastThrown = FALSE

\* State of one call of the owner guard hook (createOwnerGuardHook)
VARIABLES
    hookInput,  \* the command and the container input of the call
    hookOutput  \* what the hook returned, and the level it worked with

guardVars == <<hookInput, hookOutput>>

NoHookInput ==
    [command |-> "", trustConfig |-> FALSE, senderIds |-> <<>>, isScheduledTask |-> FALSE]

NoHookOutput == [decision |-> "none", level |-> "none"]

GuardIdle ==
    /\ hookInput = NoHookInput
    /\ hookOutput = NoHookOutput

\* State of the registry under overlapping loadPlugin / unloadPlugin calls
VARIABLES
    loadedNames,  \* the keys of this.plugins
    orderNow,     \* this.loadOrder
    pluginCalls,  \* pluginCalls[c]: the call in slot c and the await it stands at
    onLoadCalls   \* onLoadCalls[n]: invocations of the onLoad hook of n so far

callVars == <<loadedNames, orderNow, pluginCalls, onLoadCalls>>

NoCallYet == [op |-> "none", name |-> "-", pc |-> "-"]

CallSlots == 1..MaxCalls

\* the plugins the calls name; each has onLoad and onUnload
CalledNames == {"a", "b"}

CallsIdle ==
    /\ loadedNames = {}
    /\ orderNow = <<>>
    /\ pluginCalls = [c \in CallSlots |-> NoCallYet]
    /\ onLoadCalls = [n \in CalledNames |-> 0]

\* State of the typing indicator of one Discord JID (DiscordChannel.setTyping)
VARIABLES
    typingIntervals, \* typingIntervals.get(jid): the interval's id, 0 when absent
    activeIntervals, \* ids of the intervals that were set and not cleared
    intervalsMade,   \* setInterval calls so far
    typingCalls,     \* typingCalls[c]: a setTyping / disconnect call and where it stands
    latestTyping     \* the call issued last: "true", "false", "disconnect", "none"

typingVars == <<typingIntervals, activeIntervals, intervalsMade, typingCalls, latestTyping>>

TypingSlots == 1..MaxTypingCalls

NoTypingCall == [isTyping |-> FALSE, pc |-> "-"]

TypingIdle ==
    /\ typingIntervals = 0
    /\ activeIntervals = {}
    /\ intervalsMade = 0
    /\ typingCalls = [c \in TypingSlots |-> NoTypingCall]
    /\ latestTyping = "none"

\* State of the web channel (WebChannel.connect)
VARIABLES
    webGroups,    \* the JIDs of opts.registeredGroups()
    webListening, \* the 'listening' event has been handled
    webInbound    \* the chat_jid of every message passed to opts.onMessage, oldest first

webVars == <<webGroups, webListening, webInbound>>

WebIdle ==
    /\ webGroups = {}
    /\ webListening = FALSE
    /\ webInbound = <<>>

\* State of one MessageStream and of the query that iterates it
VARIABLES
    streamQueue,     \* this.queue: the texts pushed and not yet yielded
    waiting,         \* this.waiting: "null", or "set" when it holds a resolver
    streamDone,      \* this.done
    genPc,           \* where the generator stands
    delivered,       \* the texts the consumer got, in order
    pushes,          \* push() calls so far; the n-th push carries the text n
    pushedBeforeEnd, \* push() calls that came before end()
    wakeups          \* times the generator went on after its await

streamVars == <<streamQueue, waiting, streamDone, genPc, delivered, pushes, pushedBeforeEnd,
                wakeups>>

StreamIdle ==
    /\ streamQueue = <<>>
    /\ waiting = "null"
    /\ streamDone = FALSE
    /\ genPc = "start"
    /\ delivered = <<>>
    /\ pushes = 0
    /\ pushedBeforeEnd = 0
    /\ wakeups = 0

\* The components of the agent runner, the tools and the channels
moreVars == <<transferVars, agentVars, diagnosisVars, requestVars, discordVars,
              toolVars, idleVars, loopVars, guardVars, callVars, typingVars, webVars,
              streamVars>>

MoreIdle ==
    /\ TransferIdle
    /\ AgentIdle
    /\ DiagnosisIdle
    /\ RequestIdle
    /\ DiscordIdle
    /\ ToolIdle
    /\ IdleRunIdle
    /\ LoopIdle
    /\ GuardIdle
    /\ CallsIdle
    /\ TypingIdle
    /\ WebIdle
    /\ StreamIdle

\* Everything that is not the scheduler's, and its state when it is not used
pluginVars == <<contextVars, registryVars, busVars, inputVars, outputVars, moreVars>>

PluginIdle ==
    ContextIdle /\ RegistryIdle /\ BusIdle /\ InputIdle /\ OutputIdle /\ MoreIdle

\* what the actions of one component leave alone
exceptContext == <<schedulerVars, registryVars, busVars, inputVars, outputVars, moreVars>>
exceptRegistry == <<schedulerVars, contextVars, busVars, inputVars, outputVars, moreVars>>
exceptBus == <<schedulerVars, contextVars, registryVars, inputVars, outputVars, moreVars>>
exceptInput == <<schedulerVars, contextVars, registryVars, busVars, outputVars, moreVars>>
exceptOutput == <<schedulerVars, contextVars, registryVars, busVars, inputVars, moreVars>>
\* the components kept in moreVars leave the older ones alone
olderVars == <<schedulerVars, contextVars, registryVars, busVars, inputVars, outputVars>>
exceptTransfer == <<olderVars, agentVars, diagnosisVars, requestVars, discordVars,
                    toolVars, idleVars, loopVars, guardVars, callVars, typingVars,
                    webVars, streamVars>>
exceptAgent == <<olderVars, transferVars, diagnosisVars, requestVars, discordVars,
                 toolVars, idleVars, loopVars, guardVars, callVars, typingVars,
                 webVars, streamVars>>
exceptDiagnosis == <<olderVars, transferVars, agentVars, requestVars, discordVars,
                     toolVars, idleVars, loopVars, guardVars, callVars, typingVars,
                     webVars, streamVars>>
exceptRequest == <<olderVars, transferVars, agentVars, diagnosisVars, discordVars,
                   toolVars, idleVars, loopVars, guardVars, callVars, typingVars,
                   webVars, streamVars>>
exceptDiscord == <<olderVars, transferVars, agentVars, diagnosisVars, requestVars,
                   toolVars, idleVars, loopVars, guardVars, callVars, typingVars,
                   webVars, streamVars>>
exceptTool == <<olderVars, transferVars, agentVars, diagnosisVars, requestVars,
                discordVars, idleVars, loopVars, guardVars, callVars, typingVars,
                webVars, streamVars>>
exceptIdle == <<olderVars, transferVars, agentVars, diagnosisVars, requestVars,
                discordVars, toolVars, loopVars, guardVars, callVars, typingVars,
                webVars, streamVars>>
exceptLoop == <<olderVars, transferVars, agentVars, diagnosisVars, requestVars,
                discordVars, toolVars, idleVars, guardVars, callVars, typingVars,
                webVars, streamVars>>
exceptGuard == <<olderVars, transferVars, agentVars, diagnosisVars, requestVars,
                 discordVars, toolVars, idleVars, loopVars, callVars, typingVars,
                 webVars, streamVars>>
exceptCalls == <<olderVars, transferVars, agentVars, diagnosisVars, requestVars,
                 discordVars, toolVars, idleVars, loopVars, guardVars, typingVars,
                 webVars, streamVars>>
exceptTyping == <<olderVars, transferVars, agentVars, diagnosisVars, requestVars,
                  discordVars, toolVars, idleVars, loopVars, guardVars, callVars,
                  webVars, streamVars>>
exceptWeb == <<olderVars, transferVars, agentVars, diagnosisVars, requestVars,
               discordVars, toolVars, idleVars, loopVars, guardVars, callVars,
               typingVars, streamVars>>
exceptStream == <<olderVars, transferVars, agentVars, diagnosisVars, requestVars,
                  discordVars, toolVars, idleVars, loopVars, guardVars, callVars,
                  typingVars, webVars>>

vars == <<schedulerVars, pluginVars>>

Statuses == {"active", "paused", "error", "completed"}

NoTask == [exists |-> FALSE, status |-> "deleted", retryCount |-> 0,
           nextRun |-> "null", lastError |-> NoError]

Idle == [kind |-> "none", id |-> "-", pc |-> "-"]

ChatJid(t) == attr[t].jid

\* ------------------------------------------------------------------------
\* Initial state: every task is stored, active, never run, with a next run
\* in the future; the queues are empty and no agent is alive.
\* ------------------------------------------------------------------------
Init ==
    /\ \E m \in MaxRetriesValues, s \in ScheduleTypes :
          attr = [t \in Tasks |->
                    IF t = "t1"
                    THEN [maxRetries |-> m, scheduleType |-> s, jid |-> "web:a"]
                    ELSE [maxRetries |-> DefaultMaxRetries, scheduleType |-> "cron",
                          jid |-> "web:b"]]
    /\ groups \in {{"web:b"}, {"web:a", "web:b"}}
    /\ tasks = [t \in Tasks |-> [exists |-> TRUE, status |-> "active", retryCount |-> 0,
                                 nextRun |-> "future", lastError |-> NoError]]
    /\ log = [t \in Tasks |-> <<>>]
    /\ timers = [t \in Tasks |-> [d \in DelayValues |-> 0]]
    /\ pending = [j \in JIDs |-> <<>>]
    /\ running = [j \in JIDs |-> Idle]
    /\ agents = [j \in JIDs |-> 0]
    /\ inbox = [j \in JIDs |-> 0]
    /\ notified = [t \in Tasks |-> 0]
    /\ lastDelay = [t \in Tasks |-> -1]
    /\ wasCompleted = [t \in Tasks |-> FALSE]
    /\ PluginIdle

\* The scheduler with a fixed task table and nothing going on: its state in the
\* specifications of the plugin system and of the IPC transport
SchedulerIdle ==
    /\ attr = [t \in Tasks |-> [maxRetries |-> DefaultMaxRetries, scheduleType |-> "cron",
                                 jid |-> IF t = "t1" THEN "web:a" ELSE "web:b"]]
    /\ groups = JIDs
    /\ tasks = [t \in Tasks |-> [exists |-> TRUE, status |-> "active", retryCount |-> 0,
                                 nextRun |-> "future", lastError |-> NoError]]
    /\ log = [t \in Tasks |-> <<>>]
    /\ timers = [t \in Tasks |-> [d \in DelayValues |-> 0]]
    /\ pending = [j \in JIDs |-> <<>>]
    /\ running = [j \in JIDs |-> Idle]
    /\ agents = [j \in JIDs |-> 0]
    /\ inbox = [j \in JIDs |-> 0]
    /\ notified = [t \in Tasks |-> 0]
    /\ lastDelay = [t \in Tasks |-> -1]
    /\ wasCompleted = [t \in Tasks |-> FALSE]

\* ------------------------------------------------------------------------
\* Task store (db.js, modelled from the specification: single-row writes)
\* ------------------------------------------------------------------------
\* getTaskById(id): the row, or nothing when the task was deleted
GetTaskById(t) == tasks[t]

\* getDueTasks(): status = active and nextRun <= now, in store order
IsDue(t) == tasks[t].exists /\ tasks[t].status = "active" /\ tasks[t].nextRun = "due"

GetDueTasks == SelectSeq(TaskOrder, IsDue)

\* getRecentTaskRuns(id, n): the n latest run-log entries of the task
GetRecentTaskRuns(lg, n) ==
    IF Len(lg) <= n THEN lg ELSE SubSeq(lg, Len(lg) - n + 1, Len(lg))

\* logTaskRun({task_id, status, error, ...})
LogTaskRun(lg, error) ==
    Append(lg, [status |-> IF error = NoError THEN "success" ELSE "error",
                error |-> error])

\* incrementTaskRetryCount(id, error): the value it returns
IncrementedRetryCount(t) ==
    IF tasks[t].exists THEN tasks[t].retryCount + 1 ELSE 0

\* ------------------------------------------------------------------------
\* Failure diagnosis (task-diagnostics.ts)
\* ------------------------------------------------------------------------
\* recentRuns.length: every run counted, failed or not
RecentRunCount(recentRuns) == Len(recentRuns)

SameErrorCount(recentRuns, currentError) ==
    Cardinality({i \in 1..Len(recentRuns) :
        /\ recentRuns[i].status = "error"
        /\ recentRuns[i].error # NoError
        /\ Normalize(recentRuns[i].error) = Normalize(currentError)})

RecentErrorCount(recentRuns) ==
    Cardinality({i \in 1..Len(recentRuns) :
        recentRuns[i].status = "error" /\ recentRuns[i].error # NoError})

\* the rules after the orphaned rule: rate-limited, timeout, persistent,
\* transient, unknown
DiagnoseAfterOrphaned(recentRuns, currentError) ==
    LET lowerError == ToLowerCase(currentError) IN
    IF \/ Includes(lowerError, "rate limit") \/ Includes(lowerError, "429")
       \/ Includes(lowerError, "too many requests") \/ Includes(lowerError, "api error")
    THEN [pattern |-> "rate-limited", recommendation |-> "retry"]
    ELSE IF \/ Includes(lowerError, "timeout") \/ Includes(lowerError, "timed out")
            \/ Includes(lowerError, "idle timeout")
    THEN [pattern |-> "timeout", recommendation |-> "increase-timeout"]
    ELSE IF RecentErrorCount(recentRuns) >= 2
    THEN IF SameErrorCount(recentRuns, currentError) >= 2
         THEN [pattern |-> "persistent", recommendation |-> "pause"]
         ELSE [pattern |-> "transient", recommendation |-> "retry"]
    ELSE [pattern |-> "unknown", recommendation |-> "retry"]

\* the diagnoser with its orphaned rule left out
DiagnoseSkippingOrphaned(recentRuns, currentError) ==
    DiagnoseAfterOrphaned(recentRuns, currentError)

DiagnoseTaskFailure(recentRuns, currentError) ==
    LET lowerError == ToLowerCase(currentError) IN
    IF /\ (Includes(lowerError, "group not found") \/ Includes(lowerError, "not found"))
       /\ (Includes(lowerError, "group not found") \/ Includes(lowerError, "chat not found"))
    THEN [pattern |-> "orphaned", recommendation |-> "deactivate"]
    ELSE DiagnoseAfterOrphaned(recentRuns, currentError)

\* ------------------------------------------------------------------------
\* handleTaskFailure (task-scheduler.ts): what it decides
\* ------------------------------------------------------------------------
Min(a, b) == IF a <= b THEN a ELSE b

\* task.max_retries || 3
EffectiveMaxRetries(t) ==
    IF attr[t].maxRetries = 0 THEN DefaultMaxRetries ELSE attr[t].maxRetries

\* RETRY_DELAYS[Math.min(retryCount - 1, RETRY_DELAYS.length - 1)]
StandardDelay(retryCount) ==
    LET delayIndex == Min(retryCount - 1, Len(RETRY_DELAYS) - 1) IN
    IF delayIndex < 0 THEN UndefinedDelay ELSE RETRY_DELAYS[delayIndex + 1]

\* RETRY_DELAYS[RETRY_DELAYS.length - 1]
RateLimitDelay == RETRY_DELAYS[Len(RETRY_DELAYS)]

\* The decision of one handleTaskFailure call.  newLog is the run log after
\* logTaskRun has recorded the failed run (runTask logs before it handles).
\* status "same": updateTaskStatus is not called; delay -1: no retry timer.
FailureDecision(t, error, newLog) ==
    LET retryCount == IncrementedRetryCount(t)
        recentRuns == GetRecentTaskRuns(newLog, RecentLimit)
        diagnosis  == DiagnoseTaskFailure(recentRuns, error)
    IN
    CASE diagnosis.pattern = "orphaned" ->
            [pattern |-> diagnosis.pattern, status |-> "completed", notify |-> TRUE, delay |-> -1]
      [] diagnosis.pattern = "persistent" ->
            [pattern |-> diagnosis.pattern, status |-> "paused", notify |-> TRUE, delay |-> -1]
      [] diagnosis.pattern = "rate-limited" ->
            IF retryCount <= EffectiveMaxRetries(t)
            THEN [pattern |-> diagnosis.pattern, status |-> "same", notify |-> FALSE,
                  delay |-> RateLimitDelay]
            ELSE [pattern |-> diagnosis.pattern, status |-> "error", notify |-> TRUE, delay |-> -1]
      [] OTHER ->
            IF retryCount <= EffectiveMaxRetries(t)
            THEN [pattern |-> diagnosis.pattern, status |-> "same", notify |-> FALSE,
                  delay |-> StandardDelay(retryCount)]
            ELSE [pattern |-> diagnosis.pattern, status |-> "error", notify |-> TRUE, delay |-> -1]

\* a handler that only counts the failure: updateTaskStatus is never called
ApplyFailureKeepingStatus(tk, t, error, decision) ==
    IF tk[t].exists
    THEN [tk EXCEPT ![t].retryCount = @ + 1, ![t].lastError = error]
    ELSE tk

\* updateTaskStatus / incrementTaskRetryCount applied to the task table;
\* both are UPDATEs and change nothing when the row is gone
ApplyFailure(tk, t, error, decision) ==
    IF tk[t].exists
    THEN [tk EXCEPT ![t].retryCount = @ + 1,
                    ![t].lastError = error,
                    ![t].status = IF decision.status = "same" THEN @ ELSE decision.status]
    ELSE tk

\* resetTaskRetryCount(id)
ResetTaskRetryCount(tk, t) ==
    IF tk[t].exists THEN [tk EXCEPT ![t].retryCount = 0, ![t].lastError = NoError] ELSE tk

\* nextRun as runTask computes it: next cron firing / now + interval / null
ComputeNextRun(t) == IF attr[t].scheduleType = "once" THEN "null" ELSE "future"

\* updateTaskAfterRun(id, nextRun, resultSummary)
UpdateTaskAfterRun(tk, t) ==
    IF tk[t].exists THEN [tk EXCEPT ![t].nextRun = ComputeNextRun(t)] ELSE tk

\* ------------------------------------------------------------------------
\* Per-chat queue (group-queue.js, modelled from the specification, 4.5)
\* ------------------------------------------------------------------------
TaskItem(t) == [kind |-> "task", id |-> t]
MsgItem == [kind |-> "msg", id |-> "-"]

\* enqueueTask(jid, taskId, fn) for every task of a sequence, in order
EnqueueAll(pq, ts) ==
    [j \in JIDs |->
        LET mine == SelectSeq(ts, LAMBDA t : ChatJid(t) = j)
        IN pq[j] \o [i \in 1..Len(mine) |-> TaskItem(mine[i])]]

\* runs of the task that have started: finished ones are logged, one may be in progress
InProgress(t) == Cardinality({j \in JIDs : running[j].kind = "task" /\ running[j].id = t
                                            /\ running[j].pc = "agent"})
RunsStarted(t) == Len(log[t]) + InProgress(t)
TotalRuns == RunsStarted("t1") + RunsStarted("t2")

\* ------------------------------------------------------------------------
\* Environment: time passes and nextRun is reached
\* ------------------------------------------------------------------------
Tick(t) ==
    /\ UNCHANGED pluginVars
    /\ tasks[t].exists
    /\ tasks[t].nextRun = "future"
    /\ tasks' = [tasks EXCEPT ![t].nextRun = "due"]
    /\ UNCHANGED <<attr, groups, log, timers, pending, running, agents, inbox,
                   notified, lastDelay, wasCompleted>>

\* ------------------------------------------------------------------------
\* startSchedulerLoop: one sweep of the due scan
\* ------------------------------------------------------------------------
\* the re-check of the loop body: `!currentTask || currentTask.status !== 'active'`
ScanRecheck(t) == GetTaskById(t).exists /\ GetTaskById(t).status = "active"

DueScan ==
    LET dueTasks == GetDueTasks
        submitted == SelectSeq(dueTasks, ScanRecheck)
        newPending == EnqueueAll(pending, submitted)
    IN
    /\ dueTasks # <<>>
    /\ \A j \in JIDs : Len(newPending[j]) <= MaxQueue
    /\ pending' = newPending
    /\ UNCHANGED <<attr, groups, tasks, log, timers, running, agents, inbox,
                   notified, lastDelay, wasCompleted>>
    /\ UNCHANGED pluginVars

\* ------------------------------------------------------------------------
\* scheduleRetry: the timer callback
\* ------------------------------------------------------------------------
\* the timer callback without its re-check
RetryNoRecheck(t) == TRUE

\* `!currentTask || (status !== 'active' && status !== 'error')` skips the retry
RetryRecheck(t) ==
    /\ GetTaskById(t).exists
    /\ GetTaskById(t).status \in {"active", "error"}

RetryFire(t, d) ==
    /\ UNCHANGED pluginVars
    /\ timers[t][d] > 0
    /\ timers' = [timers EXCEPT ![t][d] = @ - 1]
    /\ IF RetryRecheck(t)
       THEN /\ Len(pending[ChatJid(t)]) < MaxQueue
            /\ pending' = EnqueueAll(pending, <<t>>)
       ELSE pending' = pending
    /\ UNCHANGED <<attr, groups, tasks, log, running, agents, inbox,
                   notified, lastDelay, wasCompleted>>

\* ------------------------------------------------------------------------
\* runTask, as the queue executes it
\* ------------------------------------------------------------------------
\* the effects of handleTaskFailure up to its `await deps.sendMessage`
HandleTaskFailure(t, error, newLog, decision) ==
    /\ tasks' = ApplyFailure(tasks, t, error, decision)
    /\ IF decision.delay # -1
       THEN /\ timers' = [timers EXCEPT ![t][decision.delay] = @ + 1]
            /\ lastDelay' = [lastDelay EXCEPT ![t] = decision.delay]
       ELSE UNCHANGED <<timers, lastDelay>>
    /\ notified' = [notified EXCEPT ![t] = IF decision.notify THEN @ + 1 ELSE @]
    /\ wasCompleted' = [wasCompleted EXCEPT
                          ![t] = @ \/ (tasks[t].exists /\ decision.status = "completed")]

\* runTask up to its first await: the group lookup, then either the
\* Group-not-found failure or the call of runContainerAgent
StartRunTask(j, t) ==
    IF ChatJid(t) \notin groups
    THEN \* `if (!group)`: no agent is spawned
         LET error == ErrGroupNotFound
             newLog == LogTaskRun(log[t], error)
             decision == FailureDecision(t, error, newLog)
         IN
         /\ log' = [log EXCEPT ![t] = newLog]
         /\ HandleTaskFailure(t, error, newLog, decision)
         /\ running' = [running EXCEPT ![j] =
               IF decision.notify
               THEN [kind |-> "task", id |-> t, pc |-> "notifyNoGroup"]
               ELSE Idle]
         /\ UNCHANGED agents
    ELSE \* runContainerAgent is called
         /\ agents' = [agents EXCEPT ![j] = @ + 1]
         /\ running' = [running EXCEPT ![j] = [kind |-> "task", id |-> t, pc |-> "agent"]]
         /\ UNCHANGED <<tasks, log, timers, notified, lastDelay, wasCompleted>>

\* the queue spawns the interactive agent for a queued message
StartInteractive(j) ==
    /\ agents' = [agents EXCEPT ![j] = @ + 1]
    /\ running' = [running EXCEPT ![j] = [kind |-> "msg", id |-> "-", pc |-> "agent"]]
    /\ UNCHANGED <<tasks, log, timers, notified, lastDelay, wasCompleted>>

\* the queue takes the head item of an idle JID and starts it
Dispatch(j) ==
    /\ UNCHANGED pluginVars
    /\ running[j] = Idle
    /\ pending[j] # <<>>
    /\ pending' = [pending EXCEPT ![j] = Tail(@)]
    /\ LET item == Head(pending[j]) IN
       IF item.kind = "msg"
       THEN StartInteractive(j)
       ELSE /\ TotalRuns < MaxRuns
            /\ StartRunTask(j, item.id)
    /\ UNCHANGED <<attr, groups, inbox>>

\* runTask going on while the agent process is still alive
AgentsStillAlive(ag, j) == ag

\* `await runContainerAgent(...)` returns when the agent process has exited
AgentsAfterExit(ag, j) == [ag EXCEPT ![j] = @ - 1]

\* the agent call returns (error = NoError: success) or fails with an error
RunEnd(j, error) ==
    /\ UNCHANGED pluginVars
    /\ running[j].kind = "task"
    /\ running[j].pc = "agent"
    /\ error \in Outcomes(running[j].id)
    /\ agents' = AgentsAfterExit(agents, j)
    /\ LET t == running[j].id
           newLog == LogTaskRun(log[t], error)
       IN
       /\ log' = [log EXCEPT ![t] = newLog]
       /\ IF error = NoError
          THEN /\ tasks' = UpdateTaskAfterRun(ResetTaskRetryCount(tasks, t), t)
               /\ notified' = [notified EXCEPT ![t] = 0]
               /\ lastDelay' = [lastDelay EXCEPT ![t] = -1]
               /\ running' = [running EXCEPT ![j] = Idle]
               /\ UNCHANGED <<timers, wasCompleted>>
          ELSE LET decision == FailureDecision(t, error, newLog) IN
               IF decision.notify
               THEN /\ HandleTaskFailure(t, error, newLog, decision)
                    /\ running' = [running EXCEPT ![j].pc = "notify"]
               ELSE /\ decision.delay # -1
                    /\ tasks' = UpdateTaskAfterRun(ApplyFailure(tasks, t, error, decision), t)
                    /\ timers' = [timers EXCEPT ![t][decision.delay] = @ + 1]
                    /\ lastDelay' = [lastDelay EXCEPT ![t] = decision.delay]
                    /\ running' = [running EXCEPT ![j] = Idle]
                    /\ UNCHANGED <<notified, wasCompleted>>
    /\ UNCHANGED <<attr, groups, pending, inbox>>

\* the notification's sendMessage settles (resolved, or rejected and logged);
\* runTask goes on to updateTaskAfterRun, except on the group-not-found path
NotifyDone(j) ==
    /\ UNCHANGED pluginVars
    /\ running[j].kind = "task"
    /\ running[j].pc \in {"notify", "notifyNoGroup"}
    /\ tasks' = IF running[j].pc = "notify"
                THEN UpdateTaskAfterRun(tasks, running[j].id)
                ELSE tasks
    /\ running' = [running EXCEPT ![j] = Idle]
    /\ UNCHANGED <<attr, groups, log, timers, pending, agents, inbox,
                   notified, lastDelay, wasCompleted>>

\* ------------------------------------------------------------------------
\* Dashboard: POST /api/tasks/:id/:action
\* ------------------------------------------------------------------------
Dashboard(t, action) ==
    /\ UNCHANGED pluginVars
    /\ GetTaskById(t).exists
    /\ tasks' = CASE action = "pause" -> [tasks EXCEPT ![t].status = "paused"]
                  [] action = "resume" -> [tasks EXCEPT ![t].status = "active"]
                  [] action = "delete" -> [tasks EXCEPT ![t] = NoTask]
    /\ UNCHANGED <<attr, groups, log, timers, pending, running, agents, inbox,
                   notified, lastDelay, wasCompleted>>

\* ------------------------------------------------------------------------
\* Interactive traffic on the queue
\* ------------------------------------------------------------------------
\* enqueueMessage: piped into the running agent's inbox, or queued to spawn one
InboundMessage(j) ==
    /\ UNCHANGED pluginVars
    /\ IF agents[j] > 0
       THEN /\ inbox[j] < MaxInbox
            /\ inbox' = [inbox EXCEPT ![j] = @ + 1]
            /\ UNCHANGED pending
       ELSE /\ Len(pending[j]) < MaxQueue
            /\ pending' = [pending EXCEPT ![j] = Append(@, MsgItem)]
            /\ UNCHANGED inbox
    /\ UNCHANGED <<attr, groups, tasks, log, timers, running, agents,
                   notified, lastDelay, wasCompleted>>

\* the running agent drains its inbox
Drain(j) ==
    /\ UNCHANGED pluginVars
    /\ agents[j] > 0
    /\ inbox[j] > 0
    /\ inbox' = [inbox EXCEPT ![j] = 0]
    /\ UNCHANGED <<attr, groups, tasks, log, timers, pending, running, agents,
                   notified, lastDelay, wasCompleted>>

\* the interactive agent exits after the idle close
MsgAgentExit(j) ==
    /\ UNCHANGED pluginVars
    /\ running[j].kind = "msg"
    /\ agents' = [agents EXCEPT ![j] = @ - 1]
    /\ running' = [running EXCEPT ![j] = Idle]
    /\ UNCHANGED <<attr, groups, tasks, log, timers, pending, inbox,
                   notified, lastDelay, wasCompleted>>

\* ------------------------------------------------------------------------
\* Specification
\* ------------------------------------------------------------------------
Next ==
    \/ \E t \in Tasks : Tick(t)
    \/ DueScan
    \/ \E t \in Tasks, d \in DelayValues : RetryFire(t, d)
    \/ \E j \in JIDs : Dispatch(j)
    \/ \E j \in JIDs, e \in AgentErrors \cup {NoError} : RunEnd(j, e)
    \/ \E j \in JIDs : NotifyDone(j)
    \/ \E t \in DashboardTasks, a \in {"pause", "resume", "delete"} : Dashboard(t, a)
    \/ \E j \in MessageJIDs : InboundMessage(j)
    \/ \E j \in JIDs : Drain(j)
    \/ \E j \in JIDs : MsgAgentExit(j)

Spec == Init /\ [][Next]_vars

\* ------------------------------------------------------------------------
\* Helpers of the properties
\* ------------------------------------------------------------------------
\* the run log got one more entry for t in this step: a run of t has finished
RunLogged(t) == Len(log'[t]) = Len(log[t]) + 1

\* the error of the run that finished in this step (NoError: success)
LoggedError(t) == log'[t][Len(log'[t])].error

\* a task item for t was appended to its JID's queue in this step
SubmittedNow(t) ==
    LET j == ChatJid(t) IN
    /\ Len(pending'[j]) > Len(pending[j])
    /\ \E i \in (Len(pending[j]) + 1)..Len(pending'[j]) : pending'[j][i] = TaskItem(t)

\* the queue of j took its head item in this step
DispatchedNow(j) == Len(pending'[j]) < Len(pending[j])

\* a retry timer of t fired in this step
TimerFiredNow(t) == \E d \in DelayValues : timers'[t][d] < timers[t][d]

\* a retry timer with delay d was scheduled for t in this step
TimerScheduledNow(t, d) == timers'[t][d] = timers[t][d] + 1

Queued(t) == \E i \in 1..Len(pending[ChatJid(t)]) : pending[ChatJid(t)][i] = TaskItem(t)
Executing(t) == \E j \in JIDs : running[j].kind = "task" /\ running[j].id = t

\* ------------------------------------------------------------------------
\* C1: at most one agent subprocess is alive per JID in every reachable
\* state, and an inbound message that arrives while an agent of the JID is
\* alive goes into that agent's inbox: it is not queued to spawn an agent
\* and the number of agents does not change.
\* ------------------------------------------------------------------------
AtMostOneAgent == \A j \in JIDs : agents[j] <= 1

InboundPiped ==
    \A j \in JIDs :
        /\ agents[j] > 0 => pending'[j] # Append(pending[j], MsgItem)
        /\ inbox'[j] > inbox[j] =>
              /\ agents[j] > 0
              /\ agents' = agents
              /\ pending' = pending
              /\ inbox'[j] = inbox[j] + 1

C2_CompletedIsTerminal ==
    [][\A t \in Tasks :
          wasCompleted[t] => /\ log'[t] = log[t]
                             /\ RunsStarted(t)' = RunsStarted(t)]_vars

\* ------------------------------------------------------------------------
\* C3: in every reachable state every stored task has
\* retryCount <= maxRetries + 1.
\* ------------------------------------------------------------------------
C3_RetryCountBounded ==
    \A t \in Tasks : tasks[t].exists => tasks[t].retryCount <= attr[t].maxRetries + 1

\* ------------------------------------------------------------------------
\* C4: when a run of a task fails and it is the (maxRetries+1)-th failure
\* in a row, the status of the task becomes error in that step, and exactly
\* one notification has been sent over the sequence of failures.
\* ------------------------------------------------------------------------
\* the number of failed runs at the end of the log, since the last success
ConsecutiveFailures(lg) ==
    Cardinality({i \in 1..Len(lg) : \A k \in i..Len(lg) : lg[k].status = "error"})

C4_ErrorAfterMaxRetries ==
    [][\A t \in Tasks :
          (/\ RunLogged(t)
           /\ tasks'[t].exists
           /\ ConsecutiveFailures(log'[t]) = attr[t].maxRetries + 1)
          => /\ tasks'[t].status = "error"
             /\ notified'[t] = 1]_vars

\* ------------------------------------------------------------------------
\* C5: a failure with an error matching no keyword pauses the task with one
\* notification exactly when at least two earlier runs of the log, the run
\* that just failed not counted, have the same normalized error; so the
\* task is paused at its third failure with that error and not earlier.
\* ------------------------------------------------------------------------
PlainError(e) == e \in {ErrModule, ErrModuleUpper, ErrReset}

PausedByFailure(t) ==
    /\ tasks'[t].status = "paused"
    /\ notified'[t] = notified[t] + 1

C5_PersistentAtThirdFailure ==
    [][\A t \in Tasks :
          (RunLogged(t) /\ tasks'[t].exists /\ PlainError(LoggedError(t)))
          => (PausedByFailure(t) <=> SameErrorCount(log[t], LoggedError(t)) >= 2)]_vars

\* ------------------------------------------------------------------------
\* C6: when a run fails with a rate-limit error: if the incremented
\* retryCount is <= maxRetries, exactly one retry timer is scheduled and its
\* delay is 600000 ms; otherwise no timer is scheduled and the status
\* becomes error.
\* ------------------------------------------------------------------------
OneTimerScheduled(t, d) ==
    timers' = [timers EXCEPT ![t][d] = @ + 1]

C6_RateLimitedRetry ==
    [][\A t \in Tasks :
          (RunLogged(t) /\ tasks'[t].exists /\ LoggedError(t) = ErrRate)
          => IF tasks'[t].retryCount <= attr[t].maxRetries
             THEN OneTimerScheduled(t, 600000)
             ELSE timers' = timers /\ tasks'[t].status = "error"]_vars

\* ------------------------------------------------------------------------
\* C7: within a sequence of consecutive failures of a task, the delay of
\* each scheduled retry is at least the delay of the retry scheduled before
\* it.
\* ------------------------------------------------------------------------
C7_RetryMonotonic ==
    [][\A t \in Tasks, d \in DelayValues :
          (TimerScheduledNow(t, d) /\ tasks'[t].exists /\ lastDelay[t] # -1)
          => lastDelay[t] <= d]_vars

\* ------------------------------------------------------------------------
\* C8: a once task is run at most once: no second run of it ever starts.
\* ------------------------------------------------------------------------
C8_OnceRunsOnce ==
    \A t \in Tasks : attr[t].scheduleType = "once" => RunsStarted(t) <= 1

\* ------------------------------------------------------------------------
\* C9: when the queue starts a task whose group is not registered, that
\* step records one error run-log entry "Group not found", sets the status
\* of the (stored) task to completed, sends one notification, schedules no
\* retry timer and spawns no agent.
\* ------------------------------------------------------------------------
C9_GroupNotFound ==
    [][\A j \in JIDs :
          (/\ DispatchedNow(j)
           /\ Head(pending[j]).kind = "task"
           /\ ChatJid(Head(pending[j]).id) \notin groups)
          => LET t == Head(pending[j]).id IN
             /\ log'[t] = Append(log[t], [status |-> "error", error |-> ErrGroupNotFound])
             /\ tasks[t].exists => tasks'[t].status = "completed"
             /\ notified'[t] = notified[t] + 1
             /\ timers' = timers
             /\ agents' = agents]_vars

\* a task was started without a registered group: its only run is logged as
\* Group not found, it is completed and its one notification is in flight
C9_Witness ==
    \E t \in Tasks :
        /\ ChatJid(t) \notin groups
        /\ log[t] = <<[status |-> "error", error |-> ErrGroupNotFound]>>
        /\ tasks[t].status = "completed"
        /\ notified[t] = 1
        /\ running[ChatJid(t)] = [kind |-> "task", id |-> t, pc |-> "notifyNoGroup"]

\* ------------------------------------------------------------------------
\* C10: a task item is appended to a queue only for a task that, read in
\* the store at that moment, exists with status active, or, when a retry
\* timer submits it, active or error; a retry timer that finds its task
\* paused, completed or deleted submits nothing; a due scan submits every
\* task that is due.
\* ------------------------------------------------------------------------
C10_SubmitOnlyEligible ==
    [][/\ \A t \in Tasks :
             SubmittedNow(t) =>
                /\ tasks[t].exists
                /\ IF TimerFiredNow(t)
                   THEN tasks[t].status \in {"active", "error"}
                   ELSE tasks[t].status = "active"
       /\ \A t \in Tasks :
             (TimerFiredNow(t) /\ ~(tasks[t].exists /\ tasks[t].status \in {"active", "error"}))
             => pending' = pending
       /\ (\E t \in Tasks : SubmittedNow(t) /\ ~TimerFiredNow(t))
             => \A u \in Tasks : IsDue(u) => SubmittedNow(u)]_vars

\* the retry timer of a failed task has fired after the task was paused or
\* deleted: the timer is gone and the task was not submitted again
C10_Witness ==
    \E t \in Tasks :
        /\ Len(log[t]) = 1
        /\ lastDelay[t] # -1
        /\ \A d \in DelayValues : timers[t][d] = 0
        /\ ~tasks[t].exists \/ tasks[t].status = "paused"
        /\ ~Queued(t)
        /\ ~Executing(t)

\* ========================================================================
\* Plugin context: capability gating (context.ts, in src/docs/MULTI-AGENT.md)
\* ========================================================================
\* the capabilities a manifest may declare that matter to a context, and one
\* that gates no service
Capabilities == {"ipc:read", "ipc:write", "messages:read", "messages:write",
                 "tasks:manage", "network"}

IpcMethods == {"writeFile", "readFile"}
MessageMethods == {"send", "sendVoice"}
TaskMethods == {"schedule", "list", "pause", "resume", "cancel"}

ServiceMethods ==
    [ipc |-> IpcMethods, messages |-> MessageMethods, tasks |-> TaskMethods]

Services == {"ipc", "messages", "tasks"}

\* denied(service, capability): throws
\* Error(`Plugin lacks "${capability}" capability required for ${service}`)
Denied(service, capability) ==
    [kind |-> "denied", service |-> service, capability |-> capability]

\* a method of the live service object of ContextServices: calling it runs it
Live(service, method) == [kind |-> "live", service |-> service, method |-> method]

LiveService(service) == [m \in ServiceMethods[service] |-> Live(service, m)]

\* blockedService(service, capability): every property is a function that throws
BlockedService(service, capability) ==
    [m \in ServiceMethods[service] |-> Denied(service, capability)]

\* the ipc member of the context
IpcOf(c) ==
    IF "ipc:read" \in c /\ "ipc:write" \in c THEN LiveService("ipc")
    ELSE IF "ipc:read" \in c \/ "ipc:write" \in c
    THEN [m \in IpcMethods |->
            IF m = "writeFile" /\ "ipc:write" \notin c
            THEN Denied("ipc.writeFile", "ipc:write")
            ELSE IF m = "readFile" /\ "ipc:read" \notin c
            THEN Denied("ipc.readFile", "ipc:read")
            ELSE Live("ipc", m)]
    ELSE BlockedService("ipc", "ipc:read")

\* createPluginContext(manifest, services): what a call of each method does
CreatePluginContext(c) ==
    [ipc |-> IpcOf(c),
     messages |-> IF "messages:read" \in c \/ "messages:write" \in c
                  THEN LiveService("messages")
                  ELSE BlockedService("messages", "messages:write"),
     tasks |-> IF "tasks:manage" \in c
               THEN LiveService("tasks")
               ELSE BlockedService("tasks", "tasks:manage")]

\* createToolContext(base, chatJid, groupFolder, isMain): { ...base, ... }
CreateToolContext(base, chatJid, groupFolder, isMain) ==
    [ipc |-> base.ipc, messages |-> base.messages, tasks |-> base.tasks,
     chatJid |-> chatJid, groupFolder |-> groupFolder, isMain |-> isMain]

ContextKinds == {"plugin", "tool"}

ContextFor(kind, c) ==
    IF kind = "tool"
    THEN CreateToolContext(CreatePluginContext(c), "web:a", "main", TRUE)
    ELSE CreatePluginContext(c)

\* a plugin (kind "plugin": in onLoad) or one of its tools calls ctx.<service>.<method>
CallService(kind, service, method) ==
    /\ method \in ServiceMethods[service]
    /\ lastCall' = [ctx |-> kind, service |-> service, method |-> method,
                    result |-> ContextFor(kind, caps)[service][method]]
    /\ UNCHANGED caps
    /\ UNCHANGED exceptContext

ContextInit ==
    /\ caps \in SUBSET Capabilities
    /\ lastCall = NoCall
    /\ SchedulerIdle
    /\ RegistryIdle
    /\ BusIdle
    /\ InputIdle
    /\ OutputIdle
    /\ MoreIdle

ContextNext ==
    \E kind \in ContextKinds, service \in Services, method \in IpcMethods \cup MessageMethods \cup TaskMethods :
        CallService(kind, service, method)

ContextSpec == ContextInit /\ [][ContextNext]_vars

\* the error names the operation and the capability
Names(result, operation, capability) ==
    result.kind = "denied" /\ result.service = operation /\ result.capability = capability

Called(service, method) == lastCall.service = service /\ lastCall.method = method

\* C11: with a capability set that lacks ipc:write, a call of ctx.ipc.writeFile
\* throws a denial that names ipc.writeFile and ipc:write and the live writeFile
\* is not invoked; likewise ctx.ipc.readFile with ipc:read.
C11_IpcDenialNamesOperation ==
    /\ (Called("ipc", "writeFile") /\ "ipc:write" \notin caps)
          => Names(lastCall.result, "ipc.writeFile", "ipc:write")
    /\ (Called("ipc", "readFile") /\ "ipc:read" \notin caps)
          => Names(lastCall.result, "ipc.readFile", "ipc:read")

\* the capability a method of messages or tasks requires
Required(service) == IF service = "messages" THEN "messages:write" ELSE "tasks:manage"

\* C12: a method of ctx.messages or ctx.tasks whose required capability is not
\* declared throws a denial and the live method is not invoked, in the plugin
\* context and in the tool context.
C12_UndeclaredIsDenied ==
    (lastCall.service \in {"messages", "tasks"} /\ Required(lastCall.service) \notin caps)
        => lastCall.result.kind = "denied"

\* ========================================================================
\* Plugin registry (src/src/plugins/registry.ts)
\* ========================================================================
PluginNames == {"a", "b", "c"}

\* manifest.dependencies: names of discovered plugins, or of none ("x")
DependencyChoices == {<<>>, <<"a">>, <<"b">>, <<"c">>, <<"x">>, <<"b", "c">>}

Manifests == [name : PluginNames, dependencies : DependencyChoices]

\* the plugin directories in the order discover() scans them
PluginDirs == <<"plugins/1", "plugins/2", "plugins/3", "plugins/4">>

\* a plugin the host loads with loadPlugin(manifest, dir) before loadAll()
DirectManifest == [name |-> "c", dependencies |-> <<>>]
DirectDir == "host/c"

\* what a loadPlugin call meets: the entry point escapes the directory, does not
\* exist, has no default export; the plugin has no onLoad; onLoad resolves,
\* throws (or rejects), or does not settle within LOAD_TIMEOUT_MS
LoadOutcomes == {"escapes", "notFound", "noDefault", "noOnLoad", "resolves", "throws",
                 "timeout"}

\* what an unloadPlugin call meets: the plugin has no onUnload; onUnload()
\* returns a promise that resolves, rejects or does not settle within
\* UNLOAD_TIMEOUT_MS, or throws before it returns a promise
UnloadOutcomes == {"noOnUnload", "resolves", "rejects", "timeout", "throwsSync"}

\* the module a plugin directory holds: plugin b exports no lifecycle hooks
\* (`export default { manifest: undefined }`), the others export both
HasHooks(name) == name # "b"

LoadOutcomesOf(name) ==
    IF HasHooks(name) THEN LoadOutcomes \ {"noOnLoad"}
    ELSE LoadOutcomes \ {"resolves", "throws", "timeout"}

UnloadOutcomesOf(name) ==
    IF HasHooks(name) THEN UnloadOutcomes \ {"noOnUnload"} ELSE {"noOnUnload"}

OnLoadInvoked(outcome) == outcome \in {"resolves", "throws", "timeout"}

\* Promise.race([plugin.onLoad(ctx), timeout]) without the timeout promise
LoadFailedWithoutTimeout(outcome) ==
    outcome \in {"escapes", "notFound", "noDefault", "throws"}

\* loadPlugin throws: one of its checks, the import, onLoad or the 30 s race
LoadFailed(outcome) ==
    outcome \in {"escapes", "notFound", "noDefault", "throws", "timeout"}

\* byName = new Map(plugins.map(p => [p.manifest.name, p])): the last entry of a name
ByName(ps, name) ==
    LET is == {i \in 1..Len(ps) : ps[i].manifest.name = name}
    IN IF is = {} THEN 0 ELSE CHOOSE i \in is : \A k \in is : k <= i

RECURSIVE Visit(_, _, _)
RECURSIVE VisitAll(_, _, _)

\* visit(name) of topologicalSort; st.error is the name the cycle error gives
Visit(ps, name, st) ==
    IF st.error # "none" THEN st
    ELSE IF name \in st.visited THEN st
    ELSE IF name \in st.visiting THEN [st EXCEPT !.error = name]
    ELSE LET i == ByName(ps, name) IN
         IF i = 0 THEN st
         ELSE LET entered == [st EXCEPT !.visiting = @ \cup {name}]
                  after == VisitAll(ps, ps[i].manifest.dependencies, entered)
              IN IF after.error # "none" THEN after
                 ELSE [after EXCEPT !.visiting = @ \ {name},
                                    !.visited = @ \cup {name},
                                    !.sorted = Append(@, ps[i])]

\* for (const dep of ...) visit(dep), and the loop over the discovered plugins
VisitAll(ps, names, st) ==
    IF names = <<>> THEN st
    ELSE VisitAll(ps, Tail(names), Visit(ps, Head(names), st))

TopologicalSort(ps) ==
    VisitAll(ps, [i \in 1..Len(ps) |-> ps[i].manifest.name],
             [visited |-> {}, visiting |-> {}, sorted |-> <<>>, error |-> "none"])

MapSet(m, k, v) == [x \in DOMAIN m \cup {k} |-> IF x = k THEN v ELSE m[x]]
MapDelete(m, k) == [x \in DOMAIN m \ {k} |-> m[x]]

\* loadPlugin(manifest, dir)
LoadPlugin(manifest, dir, outcome) ==
    IF manifest.name \in DOMAIN plugins
    THEN /\ warned' = warned \cup {manifest.name}
         /\ UNCHANGED <<plugins, loadOrder, emitted, attempts>>
    ELSE /\ attempts' = Append(attempts, [op |-> "load", name |-> manifest.name,
                                          dir |-> dir, outcome |-> outcome])
         /\ IF LoadFailed(outcome)
            THEN UNCHANGED <<plugins, loadOrder, emitted>>
            ELSE /\ plugins' = MapSet(plugins, manifest.name, dir)
                 /\ loadOrder' = Append(loadOrder, manifest.name)
                 /\ emitted' = Append(emitted, [event |-> "plugin:loaded",
                                                name |-> manifest.name])
         /\ UNCHANGED warned

LoadPluginThrows(manifest, outcome) ==
    manifest.name \notin DOMAIN plugins /\ LoadFailed(outcome)

\* the host loads one plugin itself on the fresh registry
LoadPluginDirect(outcome) ==
    /\ RegistryEmpty
    /\ outcome \in LoadOutcomesOf(DirectManifest.name)
    /\ LoadPlugin(DirectManifest, DirectDir, outcome)
    /\ UNCHANGED <<discovered, loadJob, unloadJob>>
    /\ UNCHANGED exceptRegistry

\* loadAll(): discover() and topologicalSort(discovered)
LoadAll ==
    /\ loadJob.state = "none"
    /\ unloadJob.state = "none"
    /\ LET r == TopologicalSort(discovered) IN
       loadJob' = IF r.error # "none"
                  THEN [NoJob EXCEPT !.state = "failed", !.error = "cycle",
                                     !.culprit = r.error]
                  ELSE [NoJob EXCEPT !.state = IF r.sorted = <<>> THEN "ok" ELSE "running",
                                     !.queue = r.sorted, !.order = r.sorted]
    /\ UNCHANGED <<discovered, plugins, loadOrder, emitted, warned, attempts, unloadJob>>
    /\ UNCHANGED exceptRegistry

\* loadAll(): one turn of `for (...) await this.loadPlugin(manifest, dir)`
LoadNext(outcome) ==
    /\ loadJob.state = "running"
    /\ LET entry == Head(loadJob.queue) IN
       /\ outcome \in LoadOutcomesOf(entry.manifest.name)
       /\ LoadPlugin(entry.manifest, entry.dir, outcome)
       /\ loadJob' = IF LoadPluginThrows(entry.manifest, outcome)
                     THEN [loadJob EXCEPT !.state = "failed", !.error = outcome,
                                          !.culprit = entry.manifest.name]
                     ELSE [loadJob EXCEPT !.queue = Tail(@),
                              !.state = IF Tail(loadJob.queue) = <<>> THEN "ok"
                                        ELSE "running"]
    /\ UNCHANGED <<discovered, unloadJob>>
    /\ UNCHANGED exceptRegistry

Reverse(q) == [i \in 1..Len(q) |-> q[Len(q) + 1 - i]]

\* unloadAll(): the snapshot [...this.loadOrder].reverse()
UnloadAll ==
    /\ unloadJob.state = "none"
    /\ loadJob.state # "running"
    /\ unloadJob' = [NoJob EXCEPT !.state = IF loadOrder = <<>> THEN "ok" ELSE "running",
                                  !.queue = Reverse(loadOrder),
                                  !.order = Reverse(loadOrder)]
    /\ UNCHANGED <<discovered, plugins, loadOrder, emitted, warned, attempts, loadJob>>
    /\ UNCHANGED exceptRegistry

\* unloadAll(): one turn of `for (...) await this.unloadPlugin(name)`
UnloadNext(outcome) ==
    /\ unloadJob.state = "running"
    /\ outcome \in UnloadOutcomesOf(Head(unloadJob.queue))
    /\ LET name == Head(unloadJob.queue)
           rest == Tail(unloadJob.queue)
           done == [unloadJob EXCEPT !.queue = rest,
                       !.state = IF rest = <<>> THEN "ok" ELSE "running"]
       IN
       IF name \notin DOMAIN plugins
       THEN /\ unloadJob' = done
            /\ UNCHANGED <<plugins, loadOrder, emitted, attempts>>
       ELSE /\ attempts' = Append(attempts, [op |-> "unload", name |-> name,
                                             dir |-> plugins[name], outcome |-> outcome])
            /\ IF outcome = "throwsSync"
               THEN /\ unloadJob' = [unloadJob EXCEPT !.state = "failed",
                                        !.error = outcome, !.culprit = name]
                    /\ UNCHANGED <<plugins, loadOrder, emitted>>
               ELSE /\ plugins' = MapDelete(plugins, name)
                    /\ loadOrder' = SelectSeq(loadOrder, LAMBDA n : n # name)
                    /\ emitted' = Append(emitted, [event |-> "plugin:unloaded",
                                                   name |-> name])
                    /\ unloadJob' = done
    /\ UNCHANGED <<discovered, warned, loadJob>>
    /\ UNCHANGED exceptRegistry

RegistryInit ==
    /\ \E n \in 0..MaxDiscovered : \E f \in [1..n -> Manifests] :
          discovered = [i \in 1..n |-> [manifest |-> f[i], dir |-> PluginDirs[i]]]
    /\ RegistryEmpty
    /\ SchedulerIdle
    /\ ContextIdle
    /\ BusIdle
    /\ InputIdle
    /\ OutputIdle
    /\ MoreIdle

RegistryNext ==
    \/ \E outcome \in LoadOutcomes : LoadPluginDirect(outcome)
    \/ LoadAll
    \/ \E outcome \in LoadOutcomes : LoadNext(outcome)
    \/ UnloadAll
    \/ \E outcome \in UnloadOutcomes : UnloadNext(outcome)

RegistrySpec == RegistryInit /\ [][RegistryNext]_vars

\* ------------------------------------------------------------------------
\* Properties of the registry
\* ------------------------------------------------------------------------
Indices(ps) == 1..Len(ps)

\* manifest i declares a dependency that names manifest j
DependsOn(ps, i, j) ==
    \E k \in 1..Len(ps[i].manifest.dependencies) :
        ps[i].manifest.dependencies[k] = ps[j].manifest.name

RECURSIVE ReachFrom(_, _, _)
\* the manifests reachable along dependencies in one step or more
ReachFrom(ps, frontier, seen) ==
    LET next == {j \in Indices(ps) : \E i \in frontier : DependsOn(ps, i, j)} \ seen
    IN IF next = {} THEN seen ELSE ReachFrom(ps, next, seen \cup next)

OnCycle(ps, i) == i \in ReachFrom(ps, {i}, {})

HasCycle(ps) == \E i \in Indices(ps) : OnCycle(ps, i)

Positions(q, e) == {k \in 1..Len(q) : q[k] = e}

NamesOf(q) == [k \in 1..Len(q) |-> q[k].manifest.name]

DirectLoaded ==
    DirectManifest.name \in DOMAIN plugins /\ plugins[DirectManifest.name] = DirectDir

\* the names loadAll has to load itself, in the order of the sort
ToLoad(order) ==
    SelectSeq(NamesOf(order), LAMBDA n : ~(DirectLoaded /\ n = DirectManifest.name))

LoadedByLoadAll == SelectSeq(loadOrder, LAMBDA n : plugins[n] # DirectDir)

SortedOk == loadJob.state # "none" /\ loadJob.error # "cycle"

\* C13: for an acyclic set of discovered manifests the sort returns each manifest
\* exactly once, every manifest after all of its dependencies that are in the
\* set; a dependency naming no discovered plugin is ignored without error; and
\* loadAll loads the plugins in that order.
C13_TopologicalOrder ==
    (loadJob.state # "none" /\ ~HasCycle(discovered)) =>
        /\ loadJob.error # "cycle"
        /\ \A i \in Indices(discovered) :
              Cardinality(Positions(loadJob.order, discovered[i])) = 1
        /\ \A i, j \in Indices(discovered) :
              DependsOn(discovered, i, j) =>
                 \A ki \in Positions(loadJob.order, discovered[i]) :
                    \E kj \in Positions(loadJob.order, discovered[j]) : kj < ki
        /\ (loadJob.state = "ok" /\ unloadJob.state = "none")
              => LoadedByLoadAll = ToLoad(loadJob.order)

OnLoadCalls == {k \in 1..Len(attempts) :
                  attempts[k].op = "load" /\ attempts[k].dir # DirectDir}

LoadedEvents(name) == {k \in 1..Len(emitted) :
                         emitted[k] = [event |-> "plugin:loaded", name |-> name]}

\* C14: when the discovered manifests contain a dependency cycle, loadAll fails
\* with an error naming a plugin on a cycle and loads nothing of the batch: no
\* onLoad is invoked, no plugin:loaded is emitted, get and getAll are unchanged.
C14_CycleLoadsNothing ==
    (loadJob.state # "none" /\ HasCycle(discovered)) =>
        /\ loadJob.state = "failed"
        /\ loadJob.error = "cycle"
        /\ \E i \in Indices(discovered) :
              discovered[i].manifest.name = loadJob.culprit /\ OnCycle(discovered, i)
        /\ OnLoadCalls = {}
        /\ \A n \in DOMAIN plugins : plugins[n] = DirectDir
        /\ \A k \in 1..Len(loadOrder) : loadOrder[k] = DirectManifest.name

Copies(name) == {i \in Indices(discovered) : discovered[i].manifest.name = name}

FirstCopy(name) == CHOOSE i \in Copies(name) : \A k \in Copies(name) : i <= k

\* C15: when two discovered directories declare the same name, loadAll loads the
\* copy discovered first, skips the later copy with a warning, and get(name)
\* returns the first copy; the names of the registry stay unique.
C15_FirstCopyWins ==
    /\ \A k1, k2 \in 1..Len(loadOrder) : loadOrder[k1] = loadOrder[k2] => k1 = k2
    /\ (loadJob.state = "ok" /\ unloadJob.state = "none") =>
          \A n \in PluginNames :
             (Cardinality(Copies(n)) >= 2 /\ ~(DirectLoaded /\ n = DirectManifest.name)) =>
                 /\ n \in DOMAIN plugins
                 /\ plugins[n] = discovered[FirstCopy(n)].dir
                 /\ n \in warned

OnUnloadCalls == SelectSeq(attempts, LAMBDA a : a.op = "unload" /\ a.outcome # "noOnUnload")

UnloadedEvents(name) == {k \in 1..Len(emitted) :
                           emitted[k] = [event |-> "plugin:unloaded", name |-> name]}

\* the names of a sequence of attempts are a contiguous run of q's members with
\* hooks, in q's order
InOrderOf(as, q) ==
    \A k \in 1..Len(as) :
        as[k].name = SelectSeq(q, HasHooks)[k]

\* C16: unloadAll invokes onUnload in exactly the reverse of the load order; an
\* onUnload that throws or exceeds its timeout does not stop the unloading of
\* the remaining plugins; after unloadAll the registry is empty and one
\* plugin:unloaded event was emitted per plugin.
C16_UnloadAllReverse ==
    /\ unloadJob.state # "none" =>
          /\ Len(OnUnloadCalls) <= Len(SelectSeq(unloadJob.order, HasHooks))
          /\ InOrderOf(OnUnloadCalls, unloadJob.order)
    /\ unloadJob.state \in {"ok", "failed"} =>
          /\ plugins = <<>>
          /\ loadOrder = <<>>
          /\ \A k \in 1..Len(unloadJob.order) :
                Cardinality(UnloadedEvents(unloadJob.order[k])) = 1

LastAttempt == attempts'[Len(attempts')]

LoadAttemptNow == Len(attempts') = Len(attempts) + 1 /\ LastAttempt.op = "load"

LoadFailures == {"escapes", "notFound", "noDefault", "throws", "timeout"}

\* C17: a loadPlugin whose entry point escapes the directory, is missing or has
\* no default export, or whose onLoad throws or times out, fails and leaves the
\* registry unchanged (get, getAll, no plugin:loaded); inside loadAll nothing
\* later in the order is loaded.
C17_FailedLoadChangesNothing ==
    [][ /\ (LoadAttemptNow /\ LastAttempt.outcome \in LoadFailures) =>
              /\ plugins' = plugins
              /\ loadOrder' = loadOrder
              /\ emitted' = emitted
              /\ loadJob.state = "running" => loadJob'.state = "failed"
        /\ loadJob.state = "failed" =>
              /\ \A n \in DOMAIN plugins' : n \in DOMAIN plugins /\ plugins'[n] = plugins[n]
              /\ Len(emitted') > Len(emitted) =>
                    emitted'[Len(emitted')].event # "plugin:loaded"
              /\ ~LoadAttemptNow
      ]_vars

\* loadAll failed on the first of two plugins it had to load, after the host had
\* loaded one itself: the registry holds the host's plugin only
C17_Witness ==
    /\ loadJob.state = "failed"
    /\ loadJob.error = "timeout"
    /\ Len(loadJob.queue) = 2
    /\ DirectLoaded
    /\ DOMAIN plugins = {DirectManifest.name}

\* ========================================================================
\* Event bus (events.ts, in src/src/plugins/registry.ts)
\* ========================================================================
\* what a handler does when it is invoked: returns, throws, or returns a
\* promise that is still pending
HandlerOutcomes == {"returns", "throws", "pending"}

\* Promise.resolve().then(() => handler(data)): a throw becomes a rejection
HandlerPromise(outcome) ==
    CASE outcome = "returns" -> "fulfilled"
      [] outcome = "throws" -> "rejected"
      [] OTHER -> "pending"

Settled(h) == promises[h] \in {"fulfilled", "rejected", "timedOut"}

\* on(event, handler)
On(h) ==
    /\ h \notin handlers
    /\ handlers' = handlers \cup {h}
    /\ UNCHANGED <<emitRun, calls, promises>>
    /\ UNCHANGED exceptBus

\* off(event, handler)
Off(h) ==
    /\ h \in handlers
    /\ handlers' = handlers \ {h}
    /\ UNCHANGED <<emitRun, calls, promises>>
    /\ UNCHANGED exceptBus

\* emit(event, data) up to its await: returns at once without a handler set,
\* else queues one microtask and arms one timer per handler of the snapshot
Emit ==
    /\ emitRun \in {"idle", "resolved"}
    /\ calls' = [h \in Handlers |-> 0]
    /\ IF handlers = {}
       THEN /\ emitRun' = "resolved"
            /\ promises' = [h \in Handlers |-> "none"]
       ELSE /\ emitRun' = "pending"
            /\ promises' = [h \in Handlers |-> IF h \in handlers THEN "queued" ELSE "none"]
    /\ UNCHANGED handlers
    /\ UNCHANGED exceptBus

\* the microtask of a handler runs: the handler is called
Invoke(h, outcome) ==
    /\ promises[h] = "queued"
    /\ calls' = [calls EXCEPT ![h] = @ + 1]
    /\ promises' = [promises EXCEPT ![h] = HandlerPromise(outcome)]
    /\ UNCHANGED <<handlers, emitRun>>
    /\ UNCHANGED exceptBus

\* the promise a handler returned settles before its timer
Settle(h, result) ==
    /\ promises[h] = "pending"
    /\ promises' = [promises EXCEPT ![h] = result]
    /\ UNCHANGED <<handlers, emitRun, calls>>
    /\ UNCHANGED exceptBus

\* no per-handler timer: the race is the handler's promise alone
NoHandlerTimer(h) == FALSE

\* setTimeout(() => reject(new Error('Handler timeout')), timeoutMs) is armed
\* for every handler and fires while the handler's promise is pending
TimerElapses(h) == promises[h] = "pending"

Timeout(h) ==
    /\ TimerElapses(h)
    /\ promises[h] = "pending"
    /\ promises' = [promises EXCEPT ![h] = "timedOut"]
    /\ UNCHANGED <<handlers, emitRun, calls>>
    /\ UNCHANGED exceptBus

\* await Promise.allSettled(promises): every race has settled and was caught
EmitResolve ==
    /\ emitRun = "pending"
    /\ \A h \in Handlers : promises[h] # "none" => Settled(h)
    /\ emitRun' = "resolved"
    /\ UNCHANGED <<handlers, calls, promises>>
    /\ UNCHANGED exceptBus

BusInit ==
    /\ BusIdle
    /\ SchedulerIdle
    /\ ContextIdle
    /\ RegistryIdle
    /\ InputIdle
    /\ OutputIdle
    /\ MoreIdle

BusNext ==
    \/ \E h \in Handlers : On(h)
    \/ \E h \in Handlers : Off(h)
    \/ Emit
    \/ \E h \in Handlers, outcome \in HandlerOutcomes : Invoke(h, outcome)
    \/ \E h \in Handlers, result \in {"fulfilled", "rejected"} : Settle(h, result)
    \/ \E h \in Handlers : Timeout(h)
    \/ EmitResolve

\* microtasks run, armed timers fire, and a settled allSettled resumes emit
BusSpec ==
    /\ BusInit
    /\ [][BusNext]_vars
    /\ WF_vars(\E h \in Handlers, outcome \in HandlerOutcomes : Invoke(h, outcome))
    /\ WF_vars(\E h \in Handlers : Timeout(h))
    /\ WF_vars(EmitResolve)

InSnapshot(h) == promises[h] # "none"

EmitSafe ==
    /\ emitRun # "rejected"
    /\ \A h \in Handlers : calls[h] <= 1
    /\ \A h \in Handlers : ~InSnapshot(h) => calls[h] = 0
    /\ emitRun = "resolved" =>
          \A h \in Handlers : InSnapshot(h) => calls[h] = 1 /\ Settled(h)

\* an emit without listeners is never pending, and a pending emit resolves in
\* the step in which nothing is left to wait for
EmitAtOnce ==
    /\ (emitRun # "pending" /\ emitRun' = "pending") => handlers # {}
    /\ (emitRun = "pending" /\ emitRun' = "resolved") =>
          \A h \in Handlers : InSnapshot(h) => Settled(h)

\* C18: emit invokes every registered handler exactly once, whatever the other
\* handlers do (throw, reject, never settle), and always eventually resolves
\* without rejecting: at once without listeners, else once every handler has
\* settled or timed out.
C18_EmitAlwaysResolves ==
    /\ []EmitSafe
    /\ [][EmitAtOnce]_vars
    /\ (emitRun = "pending") ~> (emitRun = "resolved")

\* an emit resolved although one handler threw, one rejected and one never settled
C18_Witness ==
    /\ emitRun = "resolved"
    /\ \E h1, h2, h3 \in Handlers :
          /\ promises[h1] = "rejected"
          /\ promises[h2] = "timedOut"
          /\ promises[h3] = "fulfilled"
    /\ \A h \in Handlers : calls[h] = 1

\* ========================================================================
\* IPC input: files dropped into an agent's inbox and drainIpcInput
\* (src/unnamed/part_003)
\* ========================================================================
\* the text of a message; the empty string is a text
Texts == {"", "hi", "yo"}

\* Math.random().toString(36).slice(2, 8), by its place in the order of strings
Suffixes == {1, 2}

\* `${Date.now()}-${random}.json`
FileName(ms, suffix) == [ms |-> ms, suffix |-> suffix]

\* the order of Array.prototype.sort() on file names whose millisecond prefixes
\* have the same number of digits
NameLess(f, g) == f.ms < g.ms \/ (f.ms = g.ms /\ f.suffix < g.suffix)

RECURSIVE SortNames(_)
SortNames(names) ==
    IF names = {} THEN <<>>
    ELSE LET first == CHOOSE f \in names : \A g \in names \ {f} : NameLess(f, g)
         IN <<first>> \o SortNames(names \ {first})

\* `data.type === 'message' && data.text`
IsMessage(data) == data.type = "message" /\ data.text # ""

\* time passes
ClockTick ==
    /\ clock < MaxClock
    /\ clock' = clock + 1
    /\ UNCHANGED <<inputDir, written, drained>>
    /\ UNCHANGED exceptInput

\* a {type:"message", text:x} file is written into the inbox: temp file, then
\* rename onto `${Date.now()}-${random}.json`
WriteMessage(x, suffix) ==
    /\ Len(written) < MaxWrites
    /\ inputDir' = MapSet(inputDir, FileName(clock, suffix),
                          [type |-> "message", text |-> x])
    /\ written' = Append(written, x)
    /\ UNCHANGED <<clock, drained>>
    /\ UNCHANGED exceptInput

\* drainIpcInput(): readdir, filter .json, sort, then read, unlink and collect
DrainIpcInput ==
    /\ LET files == SortNames(DOMAIN inputDir)
           data == [k \in 1..Len(files) |-> inputDir[files[k]]]
           messages == SelectSeq(data, IsMessage)
       IN drained' = drained \o [k \in 1..Len(messages) |-> messages[k].text]
    /\ inputDir' = <<>>
    /\ UNCHANGED <<clock, written>>
    /\ UNCHANGED exceptInput

InputInit ==
    /\ InputIdle
    /\ SchedulerIdle
    /\ ContextIdle
    /\ RegistryIdle
    /\ BusIdle
    /\ OutputIdle
    /\ MoreIdle

InputNext ==
    \/ ClockTick
    \/ \E x \in Texts, suffix \in Suffixes : WriteMessage(x, suffix)
    \/ DrainIpcInput

InputSpec == InputInit /\ [][InputNext]_vars

IsPrefix(p, q) == Len(p) <= Len(q) /\ \A k \in 1..Len(p) : p[k] = q[k]

\* C19: the texts written into the inbox as {type:"message", text:x} files are
\* returned by the drains exactly once each and in the order of the writes,
\* for every interleaving, every timing of the writes and every text.
C19_InboxRoundTrip ==
    /\ IsPrefix(drained, written)
    /\ inputDir = <<>> => drained = written

\* ========================================================================
\* IPC output: writeIpcFile (src/unnamed/part_003) and the tools of the
\* container plugins that write IPC files (src/container/plugins)
\* ========================================================================
\* path segments: the two of the IPC root, a sibling whose name starts with the
\* root's last segment, and the parent directory
Segments == {"workspace", "ipc", "ipcx", ".."}

RECURSIVE SeqsUpTo(_)
SeqsUpTo(n) ==
    IF n = 0 THEN {<<>>}
    ELSE LET shorter == SeqsUpTo(n - 1)
         IN shorter \cup {Append(q, x) : q \in shorter, x \in Segments}

\* the `dir` arguments: absolute or relative paths of up to MaxSegments segments
DirArguments == [abs : BOOLEAN, segs : SeqsUpTo(MaxSegments)]

WorkingDirs == {<<>>, <<"workspace">>, <<"workspace", "ipc">>, <<"app">>}

IPC_DIR == <<"workspace", "ipc">>
MESSAGES_DIR == [abs |-> TRUE, segs |-> IPC_DIR \o <<"messages">>]
TASKS_DIR == [abs |-> TRUE, segs |-> IPC_DIR \o <<"tasks">>]

RECURSIVE NormalizeSegs(_, _)
\* path normalisation: ".." removes the segment before it, the root has no parent
NormalizeSegs(stack, segs) ==
    IF segs = <<>> THEN stack
    ELSE NormalizeSegs(IF Head(segs) = ".."
                       THEN SubSeq(stack, 1, Len(stack) - 1)
                       ELSE Append(stack, Head(segs)),
                       Tail(segs))

\* path.resolve(dir): relative paths start at process.cwd()
Resolve(dir) == NormalizeSegs(IF dir.abs THEN <<>> ELSE cwd, dir.segs)

\* String.prototype.startsWith("ipc") on one segment
SegmentStartsWithIpc(seg) == seg \in {"ipc", "ipcx"}

\* resolvedDir.startsWith(IPC_DIR), without the separator
StartsWithIpcDirOnly(resolved) ==
    Len(resolved) >= 2 /\ resolved[1] = IPC_DIR[1] /\ SegmentStartsWithIpc(resolved[2])

\* resolvedDir.startsWith(IPC_DIR + path.sep)
StartsWithIpcDir(resolved) ==
    Len(resolved) >= 3 /\ resolved[1] = IPC_DIR[1] /\ resolved[2] = IPC_DIR[2]

\* the file written: path.join(dir, filename), opened relative to process.cwd()
FilePath(dir) == Resolve([dir EXCEPT !.segs = Append(@, "file.json")])

\* fs.mkdirSync(resolvedDir, { recursive: true }): the directory and its ancestors
MadeDirs(resolved) == {SubSeq(resolved, 1, n) : n \in 1..Len(resolved)}

Written(dir) == [files |-> {FilePath(dir)}, dirs |-> MadeDirs(Resolve(dir))]

\* writeIpcFile(dir, data) of the MCP server, behind ctx.ipc.writeFile and
\* ctx.messages.send
WriteIpcFile(by, dir) ==
    LET resolvedDir == Resolve(dir) IN
    IF ~StartsWithIpcDir(resolvedDir) /\ resolvedDir # IPC_DIR
    THEN /\ lastWrite' = [by |-> by, dir |-> dir, result |-> "denied"]
         /\ created' = Nothing
    ELSE /\ lastWrite' = [by |-> by, dir |-> dir, result |-> "written"]
         /\ created' = Written(dir)

\* writeIpcFile(dir, data) local to the tasks and groups plugins: no check
PluginWriteIpcFile(by, dir) ==
    /\ lastWrite' = [by |-> by, dir |-> dir, result |-> "written"]
    /\ created' = Written(dir)

TaskTools == {"schedule_task", "pause_task", "resume_task", "cancel_task",
              "register_group"}

IpcTools == TaskTools \cup {"send_message"}

\* a plugin with ipc:write calls ctx.ipc.writeFile(dir, data)
CallWriteFile(dir) ==
    /\ WriteIpcFile("ipc.writeFile", dir)
    /\ UNCHANGED cwd
    /\ UNCHANGED exceptOutput

\* the agent calls a tool that writes an IPC file
CallTool(tool) ==
    /\ IF tool \in TaskTools
       THEN PluginWriteIpcFile(tool, TASKS_DIR)
       ELSE WriteIpcFile(tool, MESSAGES_DIR)
    /\ UNCHANGED cwd
    /\ UNCHANGED exceptOutput

OutputInit ==
    /\ cwd \in WorkingDirs
    /\ lastWrite = NoWrite
    /\ created = Nothing
    /\ SchedulerIdle
    /\ ContextIdle
    /\ RegistryIdle
    /\ BusIdle
    /\ InputIdle
    /\ MoreIdle

OutputNext ==
    \/ \E dir \in DirArguments : CallWriteFile(dir)
    \/ \E tool \in IpcTools : CallTool(tool)

OutputSpec == OutputInit /\ [][OutputNext]_vars

UnderRoot(path) == IsPrefix(IPC_DIR, path)

\* C20: every IPC write ends in a file in the IPC root or below it; writeIpcFile
\* with a directory that resolves outside the root throws and creates no file
\* and no directory; no tool of the container plugins puts a file outside.
C20_WritesStayUnderRoot ==
    /\ \A f \in created.files : UnderRoot(f)
    /\ (lastWrite.by = "ipc.writeFile" /\ ~UnderRoot(Resolve(lastWrite.dir))) =>
          lastWrite.result = "denied" /\ created = Nothing
    /\ lastWrite.by \in IpcTools =>
          lastWrite.result = "written" /\ created.files # {}

\* a write into the sibling /workspace/ipcx, reached by a relative path, was denied
C20_Witness ==
    /\ lastWrite.by = "ipc.writeFile"
    /\ ~lastWrite.dir.abs
    /\ Resolve(lastWrite.dir) = <<"workspace", "ipcx">>
    /\ lastWrite.result = "denied"
    /\ created = Nothing

\* ========================================================================
\* A write into an inbox directory and a drain of it, side by side
\* (writeIpcFile and drainIpcInput, src/unnamed/part_003)
\* ========================================================================
\* `<n>.json` and `<n>.json.tmp`; n stands for `${Date.now()}-${random}`
FileNames == [id : 1..MaxFiles, ext : {"json", "json.tmp"}]

\* how much of JSON.stringify(data) is in the file
Contents == {"partial", "complete"}

\* writeFileSync straight onto the final name
InPlace(name) == name

\* const tempPath = `${filepath}.tmp`
TempPath(name) == [name EXCEPT !.ext = "json.tmp"]

\* f.endsWith('.json')
EndsWithJson(name) == name.ext = "json"

\* fs.writeFileSync(tempPath, ...) has created the file; its bytes are not all there
WriteOpen ==
    /\ writerPc.pc = "idle"
    /\ writerPc.id < MaxFiles
    /\ LET filepath == [id |-> writerPc.id + 1, ext |-> "json"]
       IN inboxFiles' = MapSet(inboxFiles, TempPath(filepath), "partial")
    /\ writerPc' = [pc |-> "writing", id |-> writerPc.id + 1]
    /\ UNCHANGED <<drainRun, consumed>>
    /\ UNCHANGED exceptTransfer

\* fs.writeFileSync returns: the content is complete
WriteClose ==
    /\ writerPc.pc = "writing"
    /\ LET filepath == [id |-> writerPc.id, ext |-> "json"]
       IN inboxFiles' = MapSet(inboxFiles, TempPath(filepath), "complete")
    /\ writerPc' = [writerPc EXCEPT !.pc = "written"]
    /\ UNCHANGED <<drainRun, consumed>>
    /\ UNCHANGED exceptTransfer

\* fs.renameSync(tempPath, filepath)
Rename ==
    /\ writerPc.pc = "written"
    /\ LET filepath == [id |-> writerPc.id, ext |-> "json"]
           content == inboxFiles[TempPath(filepath)]
       IN inboxFiles' = MapSet(MapDelete(inboxFiles, TempPath(filepath)), filepath, content)
    /\ writerPc' = [writerPc EXCEPT !.pc = "idle"]
    /\ UNCHANGED <<drainRun, consumed>>
    /\ UNCHANGED exceptTransfer

\* readdirSync(IPC_INPUT_DIR).filter(f => f.endsWith('.json')).sort()
DrainReaddir ==
    /\ drainRun.pc = "idle"
    /\ LET listed == DOMAIN inboxFiles
           kept == {f \in listed : EndsWithJson(f)}
       IN drainRun' = [pc |-> "files",
                       queue |-> SortNames({FileName(f.id, 0) : f \in kept}),
                       sawTmp |-> listed # kept]
    /\ UNCHANGED <<inboxFiles, writerPc, consumed>>
    /\ UNCHANGED exceptTransfer

\* one turn of the loop over the listing: readFileSync, JSON.parse, unlinkSync;
\* a content that does not parse is logged and the file is unlinked too
DrainFile ==
    /\ drainRun.pc = "files"
    /\ drainRun.queue # <<>>
    /\ LET file == [id |-> Head(drainRun.queue).ms, ext |-> "json"]
       IN IF file \in DOMAIN inboxFiles
          THEN /\ consumed' = consumed \cup
                      {[name |-> file, content |-> inboxFiles[file],
                        effect |-> IF inboxFiles[file] = "complete"
                                   THEN "delivered" ELSE "discarded"]}
               /\ inboxFiles' = MapDelete(inboxFiles, file)
          ELSE UNCHANGED <<inboxFiles, consumed>>
    /\ drainRun' = [drainRun EXCEPT !.queue = Tail(@)]
    /\ UNCHANGED writerPc
    /\ UNCHANGED exceptTransfer

\* return messages
DrainReturn ==
    /\ drainRun.pc = "files"
    /\ drainRun.queue = <<>>
    /\ drainRun' = NoDrain
    /\ UNCHANGED <<inboxFiles, writerPc, consumed>>
    /\ UNCHANGED exceptTransfer

\* the older components, not in use
OlderIdle ==
    /\ SchedulerIdle
    /\ ContextIdle
    /\ RegistryIdle
    /\ BusIdle
    /\ InputIdle
    /\ OutputIdle

TransferInit ==
    /\ TransferIdle
    /\ OlderIdle
    /\ AgentIdle
    /\ DiagnosisIdle
    /\ RequestIdle
    /\ DiscordIdle
    /\ ToolIdle
    /\ IdleRunIdle
    /\ LoopIdle
    /\ GuardIdle
    /\ CallsIdle
    /\ TypingIdle
    /\ WebIdle
    /\ StreamIdle

TransferNext ==
    \/ WriteOpen
    \/ WriteClose
    \/ Rename
    \/ DrainReaddir
    \/ DrainFile
    \/ DrainReturn

TransferSpec == TransferInit /\ [][TransferNext]_vars

\* C21: a drain that runs while a file is being written never reads, delivers or
\* deletes a file whose content is not complete: its listing holds final .json
\* names only, every file it has consumed had its whole content, and no
\* temporary file is ever consumed.
C21_DrainSeesCompleteFiles ==
    /\ \A c \in consumed : c.content = "complete" /\ c.effect = "delivered"
                             /\ EndsWithJson(c.name)
    /\ \A f \in DOMAIN inboxFiles : EndsWithJson(f) => inboxFiles[f] = "complete"

\* a drain has listed the directory while a temporary file was in it, and has
\* consumed a file while the writer was in the middle of the next one
C21_Witness ==
    /\ drainRun.pc = "files"
    /\ drainRun.sawTmp
    /\ writerPc.pc = "writing"
    /\ inboxFiles[TempPath([id |-> writerPc.id, ext |-> "json"])] = "partial"
    /\ consumed # {}

\* ========================================================================
\* The agent runner's query loop and the _close sentinel
\* (main, runQuery, shouldClose, waitForIpcMessage in src/unnamed/part_003)
\* ========================================================================
\* agentPc:
\*   "starting"    spawned by the host, main has not yet reached its cleanup
\*   "query"       inside runQuery, the query is running
\*   "queryDrain"  inside pollIpcDuringQuery, after shouldClose() returned false
\*   "waiting"     inside waitForIpcMessage, between two polls
\*   "waitDrain"   inside poll, after shouldClose() returned false
\*   "closing"     shouldClose() has returned true: the stream is ended or the
\*                 wait has resolved null, and the loop is about to break
\*   "exited"      main has returned
AgentPcs == {"starting", "query", "queryDrain", "waiting", "waitDrain", "closing", "exited"}

\* a poll that only waitForIpcMessage runs
PollsWhileWaiting(pc) == pc = "waiting"

\* the polls that are armed: pollIpcDuringQuery while ipcPolling, poll while waiting
Polls(pc) == pc \in {"query", "waiting"}

\* session-update payloads main writes after runQuery has returned: none when
\* it breaks on closedDuringQuery
UpdateEveryQuery(closed) == 1

SessionUpdates(closed) == IF closed THEN 0 ELSE 1

\* the host spawns the container; a sentinel still in the inbox is a stale one
Spawn ==
    /\ agentPc = "exited"
    /\ sessions.started = sessions.ended
    /\ sessions.started < MaxSessions
    /\ agentPc' = "starting"
    /\ queries' = 0
    /\ updates' = 0
    /\ closedDuringQuery' = FALSE
    /\ staleSentinel' = sentinel
    /\ sessions' = [sessions EXCEPT !.started = @ + 1]
    /\ UNCHANGED <<sentinel, inputCount, inputsWritten, closesWritten, closesSeen>>
    /\ UNCHANGED exceptAgent

\* main reaches its startup cleanup: it unlinks the sentinel, drains the pending
\* messages into the first prompt and enters the query loop
StartSession ==
    /\ agentPc = "starting"
    /\ sentinel' = FALSE
    /\ staleSentinel' = FALSE
    /\ inputCount' = 0
    /\ agentPc' = "query"
    /\ queries' = 1
    /\ UNCHANGED <<inputsWritten, closesWritten, closesSeen, sessions, updateVars>>
    /\ UNCHANGED exceptAgent

\* the host writes a message file into the inbox
WriteInput ==
    /\ inputsWritten < MaxInputs
    /\ inputCount' = inputCount + 1
    /\ inputsWritten' = inputsWritten + 1
    /\ UNCHANGED <<sentinel, agentPc, queries, closesWritten, closesSeen, sessions>>
    /\ UNCHANGED <<updateVars, staleSentinel>>
    /\ UNCHANGED exceptAgent

\* the host writes the _close sentinel
WriteSentinel ==
    /\ closesWritten < MaxCloses
    /\ sentinel' = TRUE
    /\ staleSentinel' = FALSE
    /\ closesWritten' = closesWritten + 1
    /\ UNCHANGED <<inputCount, agentPc, queries, inputsWritten, closesSeen, sessions>>
    /\ UNCHANGED updateVars
    /\ UNCHANGED exceptAgent

\* a poll fires and calls shouldClose(): existsSync, and unlinkSync when it exists
ShouldClose ==
    /\ Polls(agentPc)
    /\ IF sentinel
       THEN /\ sentinel' = FALSE
            /\ closesSeen' = closesSeen + 1
            /\ agentPc' = "closing"
            /\ closedDuringQuery' = (agentPc = "query")
       ELSE /\ agentPc' = IF agentPc = "query" THEN "queryDrain" ELSE "waitDrain"
            /\ UNCHANGED <<sentinel, closesSeen, closedDuringQuery>>
    /\ UNCHANGED <<inputCount, queries, inputsWritten, closesWritten, sessions>>
    /\ UNCHANGED <<updates, staleSentinel>>
    /\ UNCHANGED exceptAgent

\* the poll goes on with drainIpcInput(): during a query the messages are pushed
\* into the stream, while waiting they become the prompt of the next query
DrainPoll ==
    /\ agentPc \in {"queryDrain", "waitDrain"}
    /\ inputCount' = 0
    /\ IF agentPc = "waitDrain" /\ inputCount > 0
       THEN agentPc' = "query" /\ queries' = queries + 1
       ELSE /\ agentPc' = IF agentPc = "queryDrain" THEN "query" ELSE "waiting"
            /\ UNCHANGED queries
    /\ UNCHANGED <<sentinel, inputsWritten, closesWritten, closesSeen, sessions>>
    /\ UNCHANGED <<updateVars, staleSentinel>>
    /\ UNCHANGED exceptAgent

\* the query ends although its stream was not ended; main writes the session
\* update and goes on to waitForIpcMessage
QueryEnds ==
    /\ agentPc = "query"
    /\ agentPc' = "waiting"
    /\ updates' = updates + SessionUpdates(closedDuringQuery)
    /\ UNCHANGED <<sentinel, inputCount, queries, inputsWritten, closesWritten,
                   closesSeen, sessions, closedDuringQuery, staleSentinel>>
    /\ UNCHANGED exceptAgent

\* runQuery returns with closedDuringQuery, or nextMessage === null: break, main
\* returns
Exit ==
    /\ agentPc = "closing"
    /\ agentPc' = "exited"
    /\ updates' = IF closedDuringQuery
                  THEN updates + SessionUpdates(closedDuringQuery)
                  ELSE updates
    /\ sessions' = [sessions EXCEPT !.ended = @ + 1]
    /\ UNCHANGED <<sentinel, inputCount, queries, inputsWritten, closesWritten, closesSeen>>
    /\ UNCHANGED <<closedDuringQuery, staleSentinel>>
    /\ UNCHANGED exceptAgent

AgentInit ==
    /\ AgentIdle
    /\ OlderIdle
    /\ TransferIdle
    /\ DiagnosisIdle
    /\ RequestIdle
    /\ DiscordIdle
    /\ ToolIdle
    /\ IdleRunIdle
    /\ LoopIdle
    /\ GuardIdle
    /\ CallsIdle
    /\ TypingIdle
    /\ WebIdle
    /\ StreamIdle

AgentNext ==
    \/ Spawn
    \/ StartSession
    \/ WriteInput
    \/ WriteSentinel
    \/ ShouldClose
    \/ DrainPoll
    \/ QueryEnds
    \/ Exit

\* the polls are timers of a running event loop, and main goes on after its
\* awaits; nothing obliges the host to write or a query to end by itself
AgentSpec ==
    /\ AgentInit
    /\ [][AgentNext]_vars
    /\ WF_vars(StartSession)
    /\ WF_vars(ShouldClose)
    /\ WF_vars(DrainPoll)
    /\ WF_vars(Exit)

InLoop == agentPc \notin {"exited", "starting"}

\* after shouldClose() has returned true the session only exits, and starts no query
ClosingOnlyExits ==
    agentPc = "closing" => agentPc' \in {"closing", "exited"} /\ queries' = queries

\* a session leaves its loop only through a sentinel it has seen
ExitsBySentinel ==
    (InLoop /\ agentPc' = "exited") => agentPc = "closing"

\* every sentinel seen ends the session that saw it, and no sentinel is seen twice
OneSessionPerSentinel ==
    /\ closesSeen = sessions.ended + (IF agentPc = "closing" THEN 1 ELSE 0)
    /\ closesSeen <= closesWritten

\* C22: once the agent is in its query loop, a _close sentinel in its inbox is
\* eventually detected and unlinked and the agent then exits without starting
\* another query, during a query as well as while waiting; one sentinel ends
\* exactly one session.
C22_CloseEndsSession ==
    /\ ((InLoop /\ sentinel) ~> (agentPc = "exited"))
    /\ [][ClosingOnlyExits /\ ExitsBySentinel]_vars
    /\ []OneSessionPerSentinel

\* the second session has been ended by the second sentinel, seen during a query
\* that followed a message
C22_Witness ==
    /\ agentPc = "exited"
    /\ sessions.ended = 2
    /\ closesSeen = 2
    /\ queries = 2
    /\ ~sentinel

\* the queries of the running session that ended without consuming the sentinel
QueriesEndedOpen ==
    CASE agentPc \in {"starting", "query", "queryDrain"} -> IF queries = 0 THEN 0 ELSE queries - 1
      [] agentPc \in {"waiting", "waitDrain"} -> queries
      [] OTHER -> IF closedDuringQuery THEN queries - 1 ELSE queries

FreshSentinel == sentinel /\ ~staleSentinel /\ agentPc # "exited"

\* C37: a _close sentinel that the host writes after it spawned the agent, also
\* before the agent has finished its startup, is removed only by the agent
\* seeing it and makes that agent exit; a sentinel left over from a previous
\* run never makes a new agent exit before its first query.
C37_SentinelAfterSpawnCloses ==
    /\ [][(FreshSentinel /\ ~sentinel') => closesSeen' = closesSeen + 1]_vars
    /\ FreshSentinel ~> (agentPc = "exited")
    /\ [][agentPc = "starting" => agentPc' \in {"starting", "query"}]_vars
    /\ [](staleSentinel => agentPc \in {"starting", "exited"})

\* ========================================================================
\* diagnoseTaskFailure as a function of its arguments
\* (src/src/task-diagnostics.ts)
\* ========================================================================
\* the rows of the run log: a success, failures with an error string, and a
\* failure whose error column is empty
RunLogs ==
    {[status |-> "success", error |-> NoError]} \cup
    {[status |-> "error", error |-> e] : e \in {ErrModule, ErrModuleUpper, ErrReset, NoError}}

RECURSIVE Histories(_)
Histories(n) ==
    IF n = 0 THEN {<<>>}
    ELSE LET shorter == Histories(n - 1)
         IN shorter \cup {Append(h, r) : h \in shorter, r \in RunLogs}

\* diagnoseTaskFailure(task, recentRuns, currentError) is called and returns
Diagnose ==
    /\ returned = NoDiagnosis
    /\ returned' = DiagnoseTaskFailure(runsArg, errorArg)
    /\ UNCHANGED <<errorArg, runsArg>>
    /\ UNCHANGED exceptDiagnosis

DiagnosisInit ==
    /\ errorArg \in AllErrors
    /\ runsArg \in Histories(MaxHistory)
    /\ returned = NoDiagnosis
    /\ OlderIdle
    /\ TransferIdle
    /\ AgentIdle
    /\ RequestIdle
    /\ DiscordIdle
    /\ ToolIdle
    /\ IdleRunIdle
    /\ LoopIdle
    /\ GuardIdle
    /\ CallsIdle
    /\ TypingIdle
    /\ WebIdle
    /\ StreamIdle

DiagnosisNext == Diagnose

DiagnosisSpec == DiagnosisInit /\ [][DiagnosisNext]_vars

\* the error, lower-cased, contains one of the keywords
Mentions(e, keywords) == \E kw \in keywords : Includes(ToLowerCase(e), kw)

\* the runs that count as history: status error and a non-empty error
FailedRuns(runs) == SelectSeq(runs, LAMBDA r : r.status = "error" /\ r.error # NoError)

SameAsCurrent(runs, e) ==
    SelectSeq(FailedRuns(runs), LAMBDA r : Normalize(r.error) = Normalize(e))

\* the rules in their order: the pattern of the first one that matches
FirstMatchingRule(runs, e) ==
    CASE Mentions(e, {"group not found", "chat not found"}) -> "orphaned"
      [] Mentions(e, {"rate limit", "429", "too many requests", "api error"}) -> "rate-limited"
      [] Mentions(e, {"timeout", "timed out", "idle timeout"}) -> "timeout"
      [] Len(FailedRuns(runs)) >= 2 /\ Len(SameAsCurrent(runs, e)) >= 2 -> "persistent"
      [] Len(FailedRuns(runs)) >= 2 -> "transient"
      [] OTHER -> "unknown"

RecommendationOf(pattern) ==
    CASE pattern = "orphaned" -> "deactivate"
      [] pattern = "rate-limited" -> "retry"
      [] pattern = "timeout" -> "increase-timeout"
      [] pattern = "persistent" -> "pause"
      [] pattern = "transient" -> "retry"
      [] pattern = "unknown" -> "retry"

\* C23: for every error string and every run history diagnoseTaskFailure returns
\* the pattern of the first matching rule in the order orphaned, rate-limited,
\* timeout, persistent, transient, unknown (keywords matched without regard to
\* case) with that pattern's recommendation; only runs with status error and a
\* non-empty error count as history, and with fewer than two of them the result
\* is neither persistent nor transient.
C23_FirstMatchingRule ==
    returned # NoDiagnosis =>
        /\ returned.pattern = FirstMatchingRule(runsArg, errorArg)
        /\ returned.recommendation = RecommendationOf(returned.pattern)
        /\ Len(FailedRuns(runsArg)) < 2 =>
              returned.pattern \notin {"persistent", "transient"}

\* an upper-case error with trailing blank, after a success and two failures
\* with the same error in lower case: persistent
C23_Witness ==
    /\ errorArg = ErrModuleUpper
    /\ runsArg = <<[status |-> "error", error |-> ErrModule],
                      [status |-> "success", error |-> NoError],
                      [status |-> "error", error |-> ErrModule]>>
    /\ returned = [pattern |-> "persistent", recommendation |-> "pause"]

\* ========================================================================
\* Task requests: POST /api/tasks/:id/:action of the dashboard
\* (src/unnamed/part_002) and the cancel_task tool of the tasks plugin
\* (src/container/plugins/tasks/index.ts), whose IPC file the host processes
\* ========================================================================
\* ids a request can name: the two tasks and an id no task ever had
RequestIds == Tasks \cup {"t9"}
StoreOrder == <<"t1", "t2", "t9">>

\* req.params.action
RequestActions == {"pause", "resume", "delete", "restart"}

Rows == {NoRow} \cup [exists : {TRUE}, status : {"active", "paused"}]

\* a delete that takes the first row of the table, whatever its id
DeleteFirstTask(st, id) ==
    LET present == SelectSeq(StoreOrder, LAMBDA i : st[i].exists)
    IN IF present = <<>> THEN st ELSE [st EXCEPT ![Head(present)] = NoRow]

\* deleteTask(id): the row with that id is removed, if there is one
DeleteTask(st, id) == [st EXCEPT ![id] = NoRow]

\* updateTask(id, {status}): the row with that id is updated, if there is one
UpdateTask(st, id, status) ==
    IF st[id].exists THEN [st EXCEPT ![id].status = status] ELSE st

Served(via, id, action, response) ==
    [n |-> request.n + 1, via |-> via, id |-> id, action |-> action, response |-> response]

\* app.post('/api/tasks/:id/:action'): 404 for an unknown id, 400 for an unknown
\* action, 500 when the store throws, else the update and {ok: true}
DashboardPost(id, action, throws) ==
    /\ request.n < MaxRequests
    /\ IF throws
       THEN /\ request' = Served("dashboard", id, action, "500")
            /\ UNCHANGED store
       ELSE IF ~store[id].exists
       THEN /\ request' = Served("dashboard", id, action, "404")
            /\ UNCHANGED store
       ELSE CASE action = "pause" ->
                   /\ store' = UpdateTask(store, id, "paused")
                   /\ request' = Served("dashboard", id, action, "200")
              [] action = "resume" ->
                   /\ store' = UpdateTask(store, id, "active")
                   /\ request' = Served("dashboard", id, action, "200")
              [] action = "delete" ->
                   /\ store' = DeleteTask(store, id)
                   /\ request' = Served("dashboard", id, action, "200")
              [] OTHER ->
                   /\ request' = Served("dashboard", id, action, "400")
                   /\ UNCHANGED store
    /\ UNCHANGED <<runLogs, taskFiles>>
    /\ UNCHANGED exceptRequest

\* the cancel_task tool: writes {type: "cancel_task", taskId} into the tasks
\* directory and reports "requested"
CancelTaskTool(id) ==
    /\ request.n + Len(taskFiles) < MaxRequests
    /\ taskFiles' = Append(taskFiles, [type |-> "cancel_task", taskId |-> id])
    /\ UNCHANGED <<store, runLogs, request>>
    /\ UNCHANGED exceptRequest

\* the host takes the oldest file of the tasks directory: a cancel_task removes
\* the task from the store, and is a no-op for an id that is not in it
ProcessTaskIpc ==
    /\ taskFiles # <<>>
    /\ LET file == Head(taskFiles) IN
       /\ store' = IF store[file.taskId].exists
                    THEN DeleteTask(store, file.taskId) ELSE store
       /\ request' = Served("ipc", file.taskId, "delete", "done")
    /\ taskFiles' = Tail(taskFiles)
    /\ UNCHANGED runLogs
    /\ UNCHANGED exceptRequest

RequestInit ==
    /\ store \in [RequestIds -> Rows]
    /\ store["t9"] = NoRow
    /\ runLogs \in [RequestIds -> {0, 2}]
    /\ runLogs["t9"] = 0
    /\ taskFiles = <<>>
    /\ request = NoRequest
    /\ OlderIdle
    /\ TransferIdle
    /\ AgentIdle
    /\ DiagnosisIdle
    /\ DiscordIdle
    /\ ToolIdle
    /\ IdleRunIdle
    /\ LoopIdle
    /\ GuardIdle
    /\ CallsIdle
    /\ TypingIdle
    /\ WebIdle
    /\ StreamIdle

RequestNext ==
    \/ \E id \in RequestIds, action \in RequestActions, throws \in BOOLEAN :
          DashboardPost(id, action, throws)
    \/ \E id \in RequestIds : CancelTaskTool(id)
    \/ ProcessTaskIpc

RequestSpec == RequestInit /\ [][RequestNext]_vars

\* a cancel of id is served in this step
CancelServed(id) ==
    /\ request'.n = request.n + 1
    /\ request'.id = id
    /\ request'.action = "delete"

\* the request served before this step was a cancel of id that went through
JustCancelled(id) ==
    /\ request.id = id
    /\ request.action = "delete"
    /\ request.response \in {"200", "done"}

Authors == {"owner", "user", "listedBot", "otherBot", "self"}

OwnerId == "owner"
BotWhitelist == {"listedBot"}
IsBot(author) == author \in {"listedBot", "otherBot", "self"}

\* channels: the DM channels of the owner and of another user, and two guild
\* channels
DmChannels == {"dmOwner", "dmUser"}
GuildChannels == {"guild1", "guild2"}
Channels == DmChannels \cup GuildChannels

\* who can write into a channel: a DM channel has one counterpart and the client
AuthorsOf(channelId) ==
    CASE channelId = "dmOwner" -> {"owner", "self"}
      [] channelId = "dmUser" -> {"user", "self"}
      [] OTHER -> Authors

\* `discord:${message.channelId}`
ChatJidOf(channelId) == <<"discord", channelId>>

DiscordJids == {ChatJidOf(c) : c \in Channels}

\* opts.registerGroup is not passed to the channel
RegisterGroupMissing == FALSE

\* this.opts.registerGroup is set
RegisterGroupGiven == TRUE

IsRegistered(groupMap, chatJid) == groupMap[chatJid] # "-"

\* opts.registerGroup(jid, group): the host adds the chat to its registered groups
RegisterGroup(groupMap, chatJid, folder) == [groupMap EXCEPT ![chatJid] = folder]

Handled(channelId, dm, author) ==
    [n |-> event.n + 1, channelId |-> channelId, dm |-> dm, author |-> author]

\* client.on(Events.MessageCreate, ...) for one message
MessageCreate(channelId, author) ==
    LET chatJid == ChatJidOf(channelId)
        dm == channelId \in DmChannels
        autoRegister == dm /\ ~IsRegistered(chats, chatJid) /\ RegisterGroupGiven
        currentGroups == IF autoRegister
                         THEN RegisterGroup(chats, chatJid, "owner-dm")
                         ELSE chats
    IN
    /\ event.n < MaxEvents
    /\ author \in AuthorsOf(channelId)
    /\ event' = Handled(channelId, dm, author)
    /\ IF \/ author = "self"
          \/ (IsBot(author) /\ author \notin BotWhitelist)
          \/ (dm /\ author # OwnerId)
       THEN UNCHANGED <<chats, chatNames, onMessageLog, registerLog, ownerDmChannelId>>
       ELSE /\ ownerDmChannelId' = IF dm THEN channelId ELSE ownerDmChannelId
            /\ chats' = currentGroups
            /\ registerLog' = IF autoRegister
                               THEN Append(registerLog, [jid |-> chatJid, folder |-> "owner-dm"])
                               ELSE registerLog
            /\ chatNames' = chatNames \cup {chatJid}
            /\ onMessageLog' = IF IsRegistered(currentGroups, chatJid)
                                THEN Append(onMessageLog, [chat_jid |-> chatJid, sender |-> author,
                                                           n |-> event.n + 1])
                                ELSE onMessageLog
    /\ UNCHANGED exceptDiscord

\* the host registers a guild chat (a register_group request was processed)
HostRegisters(channelId) ==
    /\ channelId \in GuildChannels
    /\ ~IsRegistered(chats, ChatJidOf(channelId))
    /\ chats' = RegisterGroup(chats, ChatJidOf(channelId), channelId)
    /\ UNCHANGED <<chatNames, onMessageLog, registerLog, ownerDmChannelId, event>>
    /\ UNCHANGED exceptDiscord

DiscordInit ==
    /\ \E known \in SUBSET {"guild1"} :
          chats = [j \in DiscordJids |->
                     IF \E c \in known : j = ChatJidOf(c) THEN "guild1" ELSE "-"]
    /\ chatNames = {}
    /\ onMessageLog = <<>>
    /\ registerLog = <<>>
    /\ ownerDmChannelId = "null"
    /\ event = NoEvent
    /\ OlderIdle
    /\ TransferIdle
    /\ AgentIdle
    /\ DiagnosisIdle
    /\ RequestIdle
    /\ ToolIdle
    /\ IdleRunIdle
    /\ LoopIdle
    /\ GuardIdle
    /\ CallsIdle
    /\ TypingIdle
    /\ WebIdle
    /\ StreamIdle

DiscordNext ==
    \/ \E channelId \in Channels, author \in Authors : MessageCreate(channelId, author)
    \/ \E channelId \in GuildChannels : HostRegisters(channelId)

DiscordSpec == DiscordInit /\ [][DiscordNext]_vars

\* a MessageCreate event is handled in this step
HandledNow == event'.n = event.n + 1

DeliveredNow == Len(onMessageLog') = Len(onMessageLog) + 1

\* every call of onMessage is for a chat that is registered when it is made
DeliversRegisteredOnly ==
    DeliveredNow =>
        /\ HandledNow
        /\ onMessageLog'[Len(onMessageLog')].chat_jid = ChatJidOf(event'.channelId)
        /\ IsRegistered(chats', ChatJidOf(event'.channelId))

\* a DM whose author is not the owner changes nothing
StrangerDmDropped ==
    (HandledNow /\ event'.dm /\ event'.author # OwnerId) =>
        UNCHANGED <<chats, chatNames, onMessageLog, registerLog, ownerDmChannelId>>

\* an owner DM in a chat that is not registered: one registerGroup call with
\* folder owner-dm, and the message is delivered to the chat now registered
OwnerDmRegisters ==
    (HandledNow /\ event'.dm /\ event'.author = OwnerId
       /\ ~IsRegistered(chats, ChatJidOf(event'.channelId))) =>
        LET chatJid == ChatJidOf(event'.channelId) IN
        /\ registerLog' = Append(registerLog, [jid |-> chatJid, folder |-> "owner-dm"])
        /\ chats'[chatJid] = "owner-dm"
        /\ DeliveredNow

RegisteredOnce ==
    \A j \in DiscordJids :
        Cardinality({k \in 1..Len(registerLog) : registerLog[k].jid = j}) <= 1

ToolContexts ==
    {[chatJid |-> "discord:main", groupFolder |-> "main", isMain |-> TRUE],
     [chatJid |-> "discord:a", groupFolder |-> "a", isMain |-> FALSE],
     [chatJid |-> "discord:b", groupFolder |-> "b", isMain |-> FALSE]}

\* args.target_group_jid; "" when the optional argument is left out
TargetArguments == {"", "discord:a", "discord:b", "discord:main"}

\* the arguments of schedule_task; schedule_value by whether it passes the
\* validation of its schedule_type; context_mode "" when it is left out
ScheduleArguments ==
    [schedule_type : {"cron", "interval", "once"},
     schedule_value : {"valid", "invalid"},
     context_mode : {"", "isolated"},
     target_group_jid : TargetArguments]

RegisterArguments == [jid : {"discord:c"}, folder : {"c", "main"}]

\* a register_group tool without its check of the context
AnyContext(ctx) == TRUE

\* `if (!ctx.isMain) return {..., isError: true}` lets the main context through
MayRegister(ctx) == ctx.isMain

\* a target taken from the arguments whoever calls
RequestedTarget(args, ctx) ==
    IF args.target_group_jid # "" THEN args.target_group_jid ELSE ctx.chatJid

\* ctx.isMain && args.target_group_jid ? args.target_group_jid : ctx.chatJid
TargetJid(args, ctx) ==
    IF ctx.isMain /\ args.target_group_jid # "" THEN args.target_group_jid ELSE ctx.chatJid

\* the schedule_task request the handler writes; its timestamp and its file name
\* are the time of the call
ScheduleTaskFile(args, ctx) ==
    [type |-> "schedule_task",
     schedule_type |-> args.schedule_type,
     schedule_value |-> args.schedule_value,
     context_mode |-> IF args.context_mode = "" THEN "group" ELSE args.context_mode,
     targetJid |-> TargetJid(args, ctx),
     createdBy |-> ctx.groupFolder]

\* what one schedule_task call writes: nothing when the validation fails
ScheduleTaskWrites(args, ctx) ==
    IF args.schedule_value = "invalid" THEN <<>> ELSE <<ScheduleTaskFile(args, ctx)>>

ToolCalled(tool, args, isError) ==
    [n |-> toolCall.n + 1, tool |-> tool, args |-> args, isError |-> isError]

\* registerGroupTool.handler
RegisterGroupTool(args) ==
    /\ toolCall.n < MaxToolCalls
    /\ IF ~MayRegister(toolCtx)
       THEN /\ toolCall' = ToolCalled("register_group", args, TRUE)
            /\ UNCHANGED tasksOut
       ELSE /\ tasksOut' = Append(tasksOut, [type |-> "register_group", jid |-> args.jid,
                                             folder |-> args.folder])
            /\ toolCall' = ToolCalled("register_group", args, FALSE)
    /\ UNCHANGED toolCtx
    /\ UNCHANGED exceptTool

\* scheduleTaskTool.handler
ScheduleTaskTool(args) ==
    /\ toolCall.n < MaxToolCalls
    /\ tasksOut' = tasksOut \o ScheduleTaskWrites(args, toolCtx)
    /\ toolCall' = ToolCalled("schedule_task", args, args.schedule_value = "invalid")
    /\ UNCHANGED toolCtx
    /\ UNCHANGED exceptTool

ToolInit ==
    /\ toolCtx \in ToolContexts
    /\ tasksOut = <<>>
    /\ toolCall = NoToolCall
    /\ OlderIdle
    /\ TransferIdle
    /\ AgentIdle
    /\ DiagnosisIdle
    /\ RequestIdle
    /\ DiscordIdle
    /\ IdleRunIdle
    /\ LoopIdle
    /\ GuardIdle
    /\ CallsIdle
    /\ TypingIdle
    /\ WebIdle
    /\ StreamIdle

ToolNext ==
    \/ \E args \in RegisterArguments : RegisterGroupTool(args)
    \/ \E args \in ScheduleArguments : ScheduleTaskTool(args)

ToolSpec == ToolInit /\ [][ToolNext]_vars

ToolCalledNow(tool) == toolCall'.n = toolCall.n + 1 /\ toolCall'.tool = tool

FilesOfType(type) == SelectSeq(tasksOut, LAMBDA f : f.type = type)

\* C27: register_group called from a context that is not the main one returns an
\* error result and writes no IPC file; a register_group file exists only in
\* the tasks directory of the main context.
C27_RegisterGroupMainOnly ==
    /\ [][(ToolCalledNow("register_group") /\ ~toolCtx.isMain)
            => toolCall'.isError /\ tasksOut' = tasksOut]_vars
    /\ [](FilesOfType("register_group") # <<>> => toolCtx.isMain)

\* register_group was refused twice in the agent of chat a: nothing was written
C27_Witness ==
    /\ ~toolCtx.isMain
    /\ toolCall.tool = "register_group"
    /\ toolCall.n = 2
    /\ toolCall.isError
    /\ tasksOut = <<>>

\* the latest schedule_task call with another target_group_jid
WithTarget(target) == [toolCall.args EXCEPT !.target_group_jid = target]

\* C28: from a context that is not the main one every schedule_task file has the
\* caller's own chat JID as targetJid and the caller's folder as createdBy, and
\* what a call writes does not depend on its target_group_jid argument: a call
\* with any other target writes the same request.
C28_ScheduleTaskOwnChat ==
    ~toolCtx.isMain =>
        /\ \A k \in 1..Len(tasksOut) :
              tasksOut[k].type = "schedule_task" =>
                 /\ tasksOut[k].targetJid = toolCtx.chatJid
                 /\ tasksOut[k].createdBy = toolCtx.groupFolder
        /\ toolCall.tool = "schedule_task" =>
              \A target \in TargetArguments :
                 ScheduleTaskWrites(WithTarget(target), toolCtx)
                    = ScheduleTaskWrites(toolCall.args, toolCtx)

\* the agent of chat a asked for a task in chat b: the request is for chat a
C28_Witness ==
    /\ toolCtx.chatJid = "discord:a"
    /\ toolCall.tool = "schedule_task"
    /\ toolCall.args.target_group_jid = "discord:b"
    /\ Len(tasksOut) = 1
    /\ tasksOut[1].targetJid = "discord:a"
    /\ tasksOut[1].createdBy = "a"

\* ========================================================================
\* Scheduler: what a run leaves behind (runTask, src/src/task-scheduler.ts)
\* ========================================================================
\* runTask for t returned in this step: the queue's slot of its JID is free again
RunReturned(t) ==
    LET j == ChatJid(t) IN
    \/ running[j].kind = "task" /\ running[j].id = t /\ running'[j] = Idle
    \/ DispatchedNow(j) /\ Head(pending[j]) = TaskItem(t) /\ running'[j] = Idle

\* C24: when a run of a task has ended, with success or with a failure and
\* whatever handleTaskFailure decided, the stored nextRun is the recomputed one:
\* the next firing for cron and interval, null for once; the nextRun that made
\* the task due is not left in place.
C24_NextRunRecomputed ==
    [][\A t \in Tasks :
          (RunReturned(t) /\ tasks'[t].exists)
          => tasks'[t].nextRun = ComputeNextRun(t) /\ tasks'[t].nextRun # "due"]_vars

\* ========================================================================
\* The idle timer of a task run (runTask, src/src/task-scheduler.ts)
\* ========================================================================
\* IDLE_TIMEOUT, in ticks of the model's clock
IDLE_TIMEOUT == 2

\* streamedOutput.result: null, the empty text, or a text
StreamedResults == {"null", "", "text"}

\* `if (streamedOutput.result)`: null and the empty text are falsy
Truthy(result) == result \notin {"null", ""}

\* resetIdleTimer(): clearTimeout, then setTimeout(..., IDLE_TIMEOUT)
ResetIdleTimer == IDLE_TIMEOUT

\* runTask has found the group and calls runContainerAgent: `let idleTimer = null`
StartRun ==
    /\ runPc = "none"
    /\ runPc' = "agent"
    /\ idleTimer' = -1
    /\ UNCHANGED <<quiet, closes, outputs, latest, sending>>
    /\ UNCHANGED exceptIdle

\* the stream callback of runContainerAgent for one output of the agent; quiet
\* and closes are counted from a result that is not null
StreamOutput(result) ==
    /\ runPc = "agent"
    /\ ~sending
    /\ outputs < MaxOutputs
    /\ outputs' = outputs + 1
    /\ latest' = result
    /\ idleTimer' = IF Truthy(result) THEN ResetIdleTimer ELSE idleTimer
    /\ IF result # "null"
       THEN quiet' = 0 /\ closes' = 0
       ELSE UNCHANGED <<quiet, closes>>
    /\ UNCHANGED <<runPc, sending>>
    /\ UNCHANGED exceptIdle

\* the stream callback for a result whose sendMessage does not settle at once:
\* the callback stays at its await, resetIdleTimer() is still to come
StreamOutputSending(result) ==
    /\ runPc = "agent"
    /\ ~sending
    /\ Truthy(result)
    /\ outputs < MaxOutputs
    /\ outputs' = outputs + 1
    /\ latest' = result
    /\ sending' = TRUE
    /\ quiet' = 0
    /\ closes' = 0
    /\ UNCHANGED <<runPc, idleTimer>>
    /\ UNCHANGED exceptIdle

\* deps.sendMessage settles and the callback goes on to resetIdleTimer(),
\* whether or not the agent call has settled in the meantime
SendMessageSettles ==
    /\ sending
    /\ sending' = FALSE
    /\ idleTimer' = ResetIdleTimer
    /\ UNCHANGED <<runPc, quiet, closes, outputs, latest>>
    /\ UNCHANGED exceptIdle

\* a tick of the clock while the agent is silent; a timer that is due fires first
TimePasses ==
    /\ runPc = "agent" \/ (runPc = "done" /\ idleTimer > 0)
    /\ ~sending
    /\ idleTimer # 0
    /\ quiet <= IDLE_TIMEOUT
    /\ quiet' = quiet + 1
    /\ idleTimer' = IF idleTimer > 0 THEN idleTimer - 1 ELSE idleTimer
    /\ UNCHANGED <<runPc, closes, outputs, latest, sending>>
    /\ UNCHANGED exceptIdle

\* the idle timer fires: deps.queue.closeStdin(task.chat_jid)
IdleTimerFires ==
    /\ runPc \in {"agent", "done"}
    /\ idleTimer = 0
    /\ idleTimer' = -1
    /\ closes' = closes + 1
    /\ UNCHANGED <<runPc, quiet, outputs, latest, sending>>
    /\ UNCHANGED exceptIdle

\* runContainerAgent settles: `if (idleTimer) clearTimeout(idleTimer)`
AgentSettles ==
    /\ runPc = "agent"
    /\ runPc' = "done"
    /\ idleTimer' = -1
    /\ UNCHANGED <<quiet, closes, outputs, latest, sending>>
    /\ UNCHANGED exceptIdle

IdleInit ==
    /\ IdleRunIdle
    /\ OlderIdle
    /\ TransferIdle
    /\ AgentIdle
    /\ DiagnosisIdle
    /\ RequestIdle
    /\ DiscordIdle
    /\ ToolIdle
    /\ LoopIdle
    /\ GuardIdle
    /\ CallsIdle
    /\ TypingIdle
    /\ WebIdle
    /\ StreamIdle

IdleNext ==
    \/ StartRun
    \/ \E result \in StreamedResults : StreamOutput(result)
    \/ \E result \in StreamedResults : StreamOutputSending(result)
    \/ SendMessageSettles
    \/ TimePasses
    \/ IdleTimerFires
    \/ AgentSettles

IdleSpec == IdleInit /\ [][IdleNext]_vars

\* C29: in a task run, once the agent has been silent for longer than
\* IDLE_TIMEOUT, counted from the start of the run or from its latest result,
\* closeStdin has been called for the task's JID; a streamed result that is not
\* null restarts the timer.
C29_IdleCloseAfterSilence ==
    /\ []((runPc = "agent" /\ quiet > IDLE_TIMEOUT) => closes >= 1)
    /\ [][(((outputs' = outputs + 1 /\ ~sending') \/ (sending /\ ~sending')) /\ latest' # "null")
             => idleTimer' = IDLE_TIMEOUT]_vars

\* C36: once the agent call of a task run has returned or thrown, the idle
\* timer of the run is not armed, is not re-armed and does not fire, so no
\* closeStdin is called on behalf of the finished run.
C36_NoTimerAfterRun ==
    /\ [](runPc = "done" => idleTimer = -1)
    /\ [][runPc = "done" => (idleTimer' = idleTimer /\ closes' = closes)]_vars

\* ========================================================================
\* The due-scan loop (startSchedulerLoop, src/src/task-scheduler.ts)
\* ========================================================================
\* the due tasks in the order getDueTasks() returns them
DueSeq(due) == SelectSeq(TaskOrder, LAMBDA t : t \in due)

\* where a sweep throws: 0 in getDueTasks(), k in enqueueTask of the k-th due
\* task, Cardinality(due) + 1 nowhere
ThrowPoints(due) == 0..(Cardinality(due) + 1)

Thrown(due, throwAt) == throwAt <= Cardinality(due)

\* the tasks that reached the queue before the throw
Submitted(due, throwAt) ==
    IF throwAt = 0 THEN <<>> ELSE SubSeq(DueSeq(due), 1, throwAt - 1)

\* a loop that arms the next sweep inside its try block only
RescheduleUnlessThrown(thrown) == ~thrown

\* setTimeout(loop, SCHEDULER_POLL_INTERVAL) stands after the try/catch
RescheduleAfter(thrown) == TRUE

\* the timers that one execution of loop arms
Armed(throwAt) == IF RescheduleAfter(Thrown(dueNow, throwAt)) THEN 1 ELSE 0

\* the body of loop: the sweep and the catch block
Loop(throwAt) ==
    /\ sweeps' = sweeps + 1
    /\ lastSubmitted' = Submitted(dueNow, throwAt)
    /\ lastThrown' = Thrown(dueNow, throwAt)
    /\ UNCHANGED dueNow

\* startSchedulerLoop(deps): a duplicate start returns, the first one runs loop()
StartSchedulerLoop(throwAt) ==
    /\ starts < MaxStarts
    /\ starts' = starts + 1
    /\ IF schedulerRunning
       THEN UNCHANGED <<schedulerRunning, loopTimers, sweeps, dueNow, lastSubmitted,
                        lastThrown>>
       ELSE /\ schedulerRunning' = TRUE
            /\ Loop(throwAt)
            /\ loopTimers' = loopTimers + Armed(throwAt)
    /\ UNCHANGED exceptLoop

\* a timer armed by loop elapses and runs loop again
LoopFires(throwAt) ==
    /\ loopTimers > 0
    /\ sweeps < MaxSweeps
    /\ Loop(throwAt)
    /\ loopTimers' = (loopTimers - 1) + Armed(throwAt)
    /\ UNCHANGED <<schedulerRunning, starts>>
    /\ UNCHANGED exceptLoop

\* the store changes between two sweeps: a task becomes due, or stops being due
DueChanges(t) ==
    /\ dueNow' = IF t \in dueNow THEN dueNow \ {t} ELSE dueNow \cup {t}
    /\ UNCHANGED <<schedulerRunning, loopTimers, sweeps, starts, lastSubmitted, lastThrown>>
    /\ UNCHANGED exceptLoop

LoopInit ==
    /\ LoopIdle
    /\ OlderIdle
    /\ TransferIdle
    /\ AgentIdle
    /\ DiagnosisIdle
    /\ RequestIdle
    /\ DiscordIdle
    /\ ToolIdle
    /\ IdleRunIdle
    /\ GuardIdle
    /\ CallsIdle
    /\ TypingIdle
    /\ WebIdle
    /\ StreamIdle

LoopNext ==
    \/ \E throwAt \in ThrowPoints(dueNow) : StartSchedulerLoop(throwAt)
    \/ \E throwAt \in ThrowPoints(dueNow) : LoopFires(throwAt)
    \/ \E t \in Tasks : DueChanges(t)

\* an armed timer of a running event loop elapses
LoopSpec ==
    /\ LoopInit
    /\ [][LoopNext]_vars
    /\ WF_vars(\E throwAt \in ThrowPoints(dueNow) : LoopFires(throwAt))

\* C30: however often startSchedulerLoop is called, at most one due-scan loop
\* is active, and the loop never stops: every sweep, one that threw while
\* reading the due tasks or while submitting one included, leaves the next
\* sweep armed, and that sweep takes place.
C30_OneLoopNeverStops ==
    /\ [](loopTimers <= 1)
    /\ [](schedulerRunning => loopTimers = 1)
    /\ [][sweeps' = sweeps + 1 => loopTimers' = 1]_vars
    /\ \A n \in 0..(MaxSweeps - 1) : (schedulerRunning /\ sweeps = n) ~> (sweeps > n)

\* a duplicate start and a sweep that threw while submitting, the loop still armed
C30_Witness ==
    /\ starts >= 2
    /\ sweeps >= 2
    /\ lastThrown
    /\ lastSubmitted # <<>>
    /\ loopTimers = 1

\* ========================================================================
\* The owner guard of Bash commands (createOwnerGuardHook, src/unnamed/part_003)
\* ========================================================================
\* Bash commands, one for each way of matching the four pattern lists
Commands ==
    {"", "echo hi", "ls /data", "kubectl rollout restart deploy/web",
     "kubectl scale deploy/web --replicas=0", "rm -rf /data", "ls /data; rm -rf /data",
     "userdel bob", "ssh-keygen -t ed25519"}

\* READ_SAFE_PATTERNS.some(p => p.test(command)): anchored at the start
MatchesReadSafe(command) == command \in {"ls /data", "ls /data; rm -rf /data"}

\* OPERATE_PATTERNS.some(p => p.test(command))
MatchesOperate(command) ==
    command \in {"kubectl rollout restart deploy/web", "kubectl scale deploy/web --replicas=0"}

\* OWNER_ONLY_PATTERNS
MatchesOwnerOnly(command) == command \in {"userdel bob", "ssh-keygen -t ed25519"}

\* DESTRUCTIVE_PATTERNS: not anchored
MatchesDestructive(command) ==
    command \in {"kubectl scale deploy/web --replicas=0", "rm -rf /data",
                 "ls /data; rm -rf /data", "userdel bob"}

\* the senders: the owner, one delegate of each level, and a stranger
SenderIds == {"owner", "adminUser", "operateUser", "readUser", "stranger"}

\* levels, from the most to the least privileged
TrustLevels == <<"owner", "admin", "operate", "read", "none">>

IndexOf(level) == CHOOSE i \in DOMAIN TrustLevels : TrustLevels[i] = level

\* getTrustLevel(userId, ownerId) with trusted-users.json naming the delegates
GetTrustLevel(userId) ==
    CASE userId = "owner" -> "owner"
      [] userId = "adminUser" -> "admin"
      [] userId = "operateUser" -> "operate"
      [] userId = "readUser" -> "read"
      [] OTHER -> "none"

\* senderIds.reduce(..., 'owner'), and 'none' without senders
RECURSIVE Reduce(_, _)
Reduce(ids, lowest) ==
    IF ids = <<>> THEN lowest
    ELSE LET level == GetTrustLevel(Head(ids))
         IN Reduce(Tail(ids), IF IndexOf(level) > IndexOf(lowest) THEN level ELSE lowest)

EffectiveLevel(senderIds) == IF Len(senderIds) > 0 THEN Reduce(senderIds, "owner") ELSE "none"

\* the hook's decision: "allow" stands for the empty result {}
OwnerGuardHook(in) ==
    LET level == EffectiveLevel(in.senderIds)
        allow == [decision |-> "allow", level |-> level]
        block == [decision |-> "block", level |-> level]
    IN  IF in.command = "" THEN allow
        ELSE IF ~in.trustConfig THEN allow
        ELSE IF in.isScheduledTask THEN allow
        ELSE IF level = "owner" THEN allow
        ELSE IF MatchesOwnerOnly(in.command) THEN block
        ELSE IF level = "admin" THEN allow
        ELSE IF level = "operate"
             THEN IF MatchesOperate(in.command) \/ MatchesReadSafe(in.command) THEN allow
                  ELSE IF MatchesDestructive(in.command) THEN block
                  ELSE allow
        ELSE IF level = "read"
             THEN IF MatchesReadSafe(in.command) THEN allow ELSE block
        ELSE IF MatchesDestructive(in.command) THEN block
        ELSE allow

SenderLists ==
    {<<>>} \cup {<<a>> : a \in SenderIds} \cup {<<a, b>> : a \in SenderIds, b \in SenderIds}

HookInputs ==
    [command : Commands, trustConfig : BOOLEAN, senderIds : SenderLists,
     isScheduledTask : BOOLEAN]

\* the SDK calls the PreToolUse hook for a Bash tool use
PreToolUse(in) ==
    /\ hookOutput = NoHookOutput
    /\ hookInput' = in
    /\ hookOutput' = OwnerGuardHook(in)
    /\ UNCHANGED exceptGuard

GuardInit ==
    /\ GuardIdle
    /\ OlderIdle
    /\ TransferIdle
    /\ AgentIdle
    /\ DiagnosisIdle
    /\ RequestIdle
    /\ DiscordIdle
    /\ ToolIdle
    /\ IdleRunIdle
    /\ LoopIdle
    /\ CallsIdle
    /\ TypingIdle
    /\ WebIdle
    /\ StreamIdle

GuardNext == \E in \in HookInputs : PreToolUse(in)

GuardSpec == GuardInit /\ [][GuardNext]_vars

\* some triggering sender is not the owner, or no sender is known
NotOwnerTriggered(in) ==
    in.senderIds = <<>> \/ \E i \in DOMAIN in.senderIds : in.senderIds[i] # "owner"

\* the least privileged level among the senders
LeastPrivileged(in) ==
    IF in.senderIds = <<>> THEN "none"
    ELSE CHOOSE l \in {GetTrustLevel(in.senderIds[i]) : i \in DOMAIN in.senderIds} :
           \A i \in DOMAIN in.senderIds : IndexOf(GetTrustLevel(in.senderIds[i])) <= IndexOf(l)

\* C32: in an interactive run with a trust configuration the owner guard blocks
\* every Bash command that matches a destructive pattern when some triggering
\* sender is not the owner or no sender is known, whatever allow pattern the
\* command also matches; the level it works with is the least privileged one
\* among the senders.
C32_DestructiveBlockedForNonOwner ==
    (hookOutput # NoHookOutput /\ hookInput.trustConfig /\ ~hookInput.isScheduledTask)
    => /\ hookOutput.level = LeastPrivileged(hookInput)
       /\ (MatchesDestructive(hookInput.command) /\ NotOwnerTriggered(hookInput))
          => hookOutput.decision = "block"

\* ========================================================================
\* Scheduler: the outcome of one handleTaskFailure call
\* ========================================================================
\* a failed run of t was logged in this step: handleTaskFailure acts on it
FailureHandledNow(t) == RunLogged(t) /\ LoggedError(t) # NoError

\* exactly one retry timer more, the status as it was, no notification
RetryOutcome(t) ==
    /\ \E d \in DelayValues :
          /\ TimerScheduledNow(t, d)
          /\ \A e \in DelayValues \ {d} : timers'[t][e] = timers[t][e]
    /\ tasks'[t].status = tasks[t].status
    /\ notified'[t] = notified[t]

\* a final status, one notification attempted, no retry timer
FinalOutcome(t) ==
    /\ timers'[t] = timers[t]
    /\ notified'[t] = notified[t] + 1
    /\ tasks[t].exists => tasks'[t].status \in {"completed", "paused", "error"}

\* the notification's sendMessage settles in this step, resolved or rejected
NotificationSettles(j) ==
    /\ running[j].kind = "task"
    /\ running[j].pc \in {"notify", "notifyNoGroup"}
    /\ running'[j] # running[j]

\* C33: each handleTaskFailure call either schedules exactly one retry timer,
\* leaving the status and sending nothing, or sets the status to completed,
\* paused or error with exactly one notification attempted and no retry timer;
\* when the notification's send settles, also by failing, the status stays and
\* the run ends.
C33_RetryOrFinalOutcome ==
    /\ [][\A t \in Tasks : FailureHandledNow(t) => (RetryOutcome(t) \/ FinalOutcome(t))]_vars
    /\ [][\A j \in JIDs : NotificationSettles(j)
             => /\ tasks'[running[j].id].status = tasks[running[j].id].status
                /\ running'[j] = Idle
                /\ notified' = notified /\ timers' = timers]_vars

\* a task that was retried once and then got its final status, the
\* notification settled
C33_Witness ==
    \E t \in Tasks :
        /\ lastDelay[t] # -1
        /\ notified[t] = 1
        /\ tasks[t].status \in {"paused", "error"}
        /\ ~Executing(t)

\* ========================================================================
\* Scheduler: runs of one task in flight
\* ========================================================================
\* the items of t waiting in the queue of its JID
QueuedRuns(t) ==
    Cardinality({i \in 1..Len(pending[ChatJid(t)]) : pending[ChatJid(t)][i] = TaskItem(t)})

\* the runs of t that were submitted and have not finished
RunsInFlight(t) == QueuedRuns(t) + (IF Executing(t) THEN 1 ELSE 0)

\* C34: for every task at most one run is submitted and not finished: while a
\* run of the task is queued or executing, neither a due scan nor a retry timer
\* submits the task again.
C34_OneRunInFlight ==
    /\ [](\A t \in Tasks : RunsInFlight(t) <= 1)
    /\ [][\A t \in Tasks : SubmittedNow(t) => RunsInFlight(t) = 0]_vars

\* ========================================================================
\* Overlapping loadPlugin and unloadPlugin calls
\* (PluginRegistry, src/src/plugins/registry.ts)
\* ========================================================================
Finished(call) == [call EXCEPT !.pc = "returned"]

\* loadPlugin up to `await import(entryPoint)`: the has() test and the path tests
LoadPluginBegins(c, name) ==
    /\ pluginCalls[c] = NoCallYet
    /\ pluginCalls' = [pluginCalls EXCEPT ![c] =
          IF name \in loadedNames
          THEN [op |-> "load", name |-> name, pc |-> "returned"]
          ELSE [op |-> "load", name |-> name, pc |-> "import"]]
    /\ UNCHANGED <<loadedNames, orderNow, onLoadCalls>>
    /\ UNCHANGED exceptCalls

\* the import resolves: plugin.onLoad(ctx) is invoked and awaited
ImportResolves(c) ==
    /\ pluginCalls[c].op = "load"
    /\ pluginCalls[c].pc = "import"
    /\ pluginCalls' = [pluginCalls EXCEPT ![c].pc = "onLoad"]
    /\ onLoadCalls' = [onLoadCalls EXCEPT ![pluginCalls[c].name] = @ + 1]
    /\ UNCHANGED <<loadedNames, orderNow>>
    /\ UNCHANGED exceptCalls

\* onLoad settles: plugins.set and loadOrder.push when it resolved, a throw
\* out of loadPlugin when it rejected or timed out
OnLoadSettles(c, resolved) ==
    /\ pluginCalls[c].op = "load"
    /\ pluginCalls[c].pc = "onLoad"
    /\ pluginCalls' = [pluginCalls EXCEPT ![c] = Finished(@)]
    /\ IF resolved
       THEN /\ loadedNames' = loadedNames \cup {pluginCalls[c].name}
            /\ orderNow' = Append(orderNow, pluginCalls[c].name)
       ELSE UNCHANGED <<loadedNames, orderNow>>
    /\ UNCHANGED onLoadCalls
    /\ UNCHANGED exceptCalls

\* unloadPlugin up to the await of onUnload: plugins.get(name)
UnloadPluginBegins(c, name) ==
    /\ pluginCalls[c] = NoCallYet
    /\ pluginCalls' = [pluginCalls EXCEPT ![c] =
          IF name \in loadedNames
          THEN [op |-> "unload", name |-> name, pc |-> "onUnload"]
          ELSE [op |-> "unload", name |-> name, pc |-> "returned"]]
    /\ UNCHANGED <<loadedNames, orderNow, onLoadCalls>>
    /\ UNCHANGED exceptCalls

\* onUnload settles (an error is logged): plugins.delete and loadOrder.filter
OnUnloadSettles(c) ==
    /\ pluginCalls[c].op = "unload"
    /\ pluginCalls[c].pc = "onUnload"
    /\ pluginCalls' = [pluginCalls EXCEPT ![c] = Finished(@)]
    /\ loadedNames' = loadedNames \ {pluginCalls[c].name}
    /\ orderNow' = SelectSeq(orderNow, LAMBDA n : n # pluginCalls[c].name)
    /\ UNCHANGED onLoadCalls
    /\ UNCHANGED exceptCalls

CallsInit ==
    /\ CallsIdle
    /\ OlderIdle
    /\ TransferIdle
    /\ AgentIdle
    /\ DiagnosisIdle
    /\ RequestIdle
    /\ DiscordIdle
    /\ ToolIdle
    /\ IdleRunIdle
    /\ LoopIdle
    /\ GuardIdle
    /\ TypingIdle
    /\ WebIdle
    /\ StreamIdle

CallsNext ==
    \/ \E c \in CallSlots, name \in CalledNames : LoadPluginBegins(c, name)
    \/ \E c \in CallSlots : ImportResolves(c)
    \/ \E c \in CallSlots, resolved \in BOOLEAN : OnLoadSettles(c, resolved)
    \/ \E c \in CallSlots, name \in CalledNames : UnloadPluginBegins(c, name)
    \/ \E c \in CallSlots : OnUnloadSettles(c)

CallsSpec == CallsInit /\ [][CallsNext]_vars

\* getAll(): loadOrder.map(n => plugins.get(n)!.plugin), "undefined" standing
\* for a name that is not in the map
GetAll == [i \in 1..Len(orderNow) |->
              IF orderNow[i] \in loadedNames THEN orderNow[i] ELSE "undefined"]

\* C35: under every interleaving of loadPlugin and unloadPlugin calls the load
\* order holds each loaded name exactly once and exactly the names of the
\* plugin map, so getAll returns every loaded plugin once, and onLoad is not
\* invoked for a name while that name is loaded.
C35_LoadOrderMatchesMap ==
    /\ [](\A n \in CalledNames :
            Cardinality({i \in 1..Len(GetAll) : GetAll[i] = n})
                = IF n \in loadedNames THEN 1 ELSE 0)
    /\ [](\A i \in 1..Len(GetAll) : GetAll[i] # "undefined")
    /\ [][\A n \in CalledNames : onLoadCalls'[n] > onLoadCalls[n] => n \notin loadedNames]_vars

\* ========================================================================
\* The typing indicator (DiscordChannel.setTyping and disconnect,
\* src/src/channels/discord.ts)
\* ========================================================================
\* clearInterval(existing) and typingIntervals.delete(jid), when there is one
ClearExisting ==
    /\ activeIntervals' = activeIntervals \ {typingIntervals}
    /\ typingIntervals' = 0

\* setTyping(jid, isTyping) up to `await doTyping()`, or to its return for false
SetTypingBegins(c, isTyping) ==
    /\ typingCalls[c] = NoTypingCall
    /\ ClearExisting
    /\ typingCalls' = [typingCalls EXCEPT ![c] =
          [isTyping |-> isTyping, pc |-> IF isTyping THEN "doTyping" ELSE "returned"]]
    /\ latestTyping' = IF isTyping THEN "true" ELSE "false"
    /\ UNCHANGED intervalsMade
    /\ UNCHANGED exceptTyping

\* doTyping() settles: typingIntervals.set(jid, setInterval(doTyping, 8000))
DoTypingSettles(c) ==
    /\ typingCalls[c].pc = "doTyping"
    /\ intervalsMade' = intervalsMade + 1
    /\ typingIntervals' = intervalsMade + 1
    /\ activeIntervals' = activeIntervals \cup {intervalsMade + 1}
    /\ typingCalls' = [typingCalls EXCEPT ![c].pc = "returned"]
    /\ UNCHANGED latestTyping
    /\ UNCHANGED exceptTyping

\* disconnect(): every interval of the map is cleared, the map is emptied
Disconnect(c) ==
    /\ typingCalls[c] = NoTypingCall
    /\ ClearExisting
    /\ typingCalls' = [typingCalls EXCEPT ![c] = [isTyping |-> FALSE, pc |-> "returned"]]
    /\ latestTyping' = "disconnect"
    /\ UNCHANGED intervalsMade
    /\ UNCHANGED exceptTyping

TypingInit ==
    /\ TypingIdle
    /\ OlderIdle
    /\ TransferIdle
    /\ AgentIdle
    /\ DiagnosisIdle
    /\ RequestIdle
    /\ DiscordIdle
    /\ ToolIdle
    /\ IdleRunIdle
    /\ LoopIdle
    /\ GuardIdle
    /\ CallsIdle
    /\ WebIdle
    /\ StreamIdle

TypingNext ==
    \/ \E c \in TypingSlots, isTyping \in BOOLEAN : SetTypingBegins(c, isTyping)
    \/ \E c \in TypingSlots : DoTypingSettles(c)
    \/ \E c \in TypingSlots : Disconnect(c)

TypingSpec == TypingInit /\ [][TypingNext]_vars

\* C38: for every interleaving of setTyping(jid, true) and setTyping(jid, false)
\* at most one typing-refresh interval of the JID exists, and once the last
\* call was setTyping(jid, false), or a disconnect, and has returned, no
\* interval of the JID is active.
C38_OneTypingInterval ==
    /\ Cardinality(activeIntervals) <= 1
    /\ latestTyping \in {"false", "disconnect"} => activeIntervals = {}

\* ========================================================================
\* The web channel's inbound messages (WebChannel.connect, src/unnamed/part_001)
\* ========================================================================
\* JIDs as prefix and suffix
WEB_JID_PREFIX == "web"
DEFAULT_CHAT_JID == <<"web", "main">>

\* msg.chatJid of a WebSocket frame: absent, or any text the client chose
ClientJids == {<<>>, <<"web", "main">>, <<"web", "other">>, <<"discord", "1">>}

\* the frames a dashboard client sends
Frames == [type : {"message", "ping"}, text : {"", "hi"}, chatJid : ClientJids]

\* ownsJid(jid): jid.startsWith(WEB_JID_PREFIX)
OwnsJid(jid) == Len(jid) > 0 /\ jid[1] = WEB_JID_PREFIX

\* msg.chatJid || DEFAULT_CHAT_JID
FrameChatJid(msg) == IF msg.chatJid # <<>> THEN msg.chatJid ELSE DEFAULT_CHAT_JID

\* wss 'listening': the default web chat is registered when it is not yet
Listening ==
    /\ ~webListening
    /\ webListening' = TRUE
    /\ webGroups' = webGroups \cup {DEFAULT_CHAT_JID}
    /\ UNCHANGED webInbound
    /\ UNCHANGED exceptWeb

\* ws 'message': a frame of type message with a text goes to opts.onMessage
WsMessage(msg) ==
    /\ webListening
    /\ Len(webInbound) < MaxFrames
    /\ webInbound' = IF msg.type = "message" /\ msg.text # ""
                     THEN Append(webInbound, FrameChatJid(msg))
                     ELSE webInbound
    /\ UNCHANGED <<webGroups, webListening>>
    /\ UNCHANGED exceptWeb

WebInit ==
    /\ WebIdle
    /\ OlderIdle
    /\ TransferIdle
    /\ AgentIdle
    /\ DiagnosisIdle
    /\ RequestIdle
    /\ DiscordIdle
    /\ ToolIdle
    /\ IdleRunIdle
    /\ LoopIdle
    /\ GuardIdle
    /\ CallsIdle
    /\ TypingIdle
    /\ StreamIdle

WebNext ==
    \/ Listening
    \/ \E msg \in Frames : WsMessage(msg)

WebSpec == WebInit /\ [][WebNext]_vars

\* C39: every inbound message the web channel hands to the core carries a JID
\* that the web channel owns (prefix web:) and that is a registered chat; a
\* dashboard client cannot inject a message into another channel's JID.
C39_WebInboundOwned ==
    \A i \in 1..Len(webInbound) : OwnsJid(webInbound[i]) /\ webInbound[i] \in webGroups

\* ========================================================================
\* MessageStream (src/unnamed/part_003)
\* ========================================================================
\* genPc:
\*   "start"     the generator has not run yet
\*   "yielded"   suspended at `yield`, the consumer holds a message
\*   "awaiting"  suspended at `await new Promise(r => { this.waiting = r })`
\*   "woken"     the promise is resolved, the continuation has not run yet
\*   "returned"  the generator has returned
\* a stream whose push and end never call the resolver
NeverWakes(w) == FALSE

\* `this.waiting?.()`: the resolver is called when there is one
Wakes(w) == w # "null"

\* what calling the resolver does to the generator: a pending promise resolves
AfterWake(pc) == IF Wakes(waiting) /\ pc = "awaiting" THEN "woken" ELSE pc

\* push(text)
Push ==
    /\ pushes < MaxPushes
    /\ pushes' = pushes + 1
    /\ pushedBeforeEnd' = IF streamDone THEN pushedBeforeEnd ELSE pushedBeforeEnd + 1
    /\ streamQueue' = Append(streamQueue, pushes + 1)
    /\ genPc' = AfterWake(genPc)
    /\ UNCHANGED <<waiting, streamDone, delivered, wakeups>>
    /\ UNCHANGED exceptStream

\* end()
End ==
    /\ ~streamDone
    /\ streamDone' = TRUE
    /\ genPc' = AfterWake(genPc)
    /\ UNCHANGED <<streamQueue, waiting, delivered, pushes, pushedBeforeEnd, wakeups>>
    /\ UNCHANGED exceptStream

\* the generator runs to its next suspension: it yields the head of the queue,
\* returns when done, or arms the resolver and awaits
RunLoop(w) ==
    IF streamQueue # <<>>
    THEN /\ delivered' = Append(delivered, Head(streamQueue))
         /\ streamQueue' = Tail(streamQueue)
         /\ genPc' = "yielded"
         /\ waiting' = w
    ELSE /\ genPc' = IF streamDone THEN "returned" ELSE "awaiting"
         /\ waiting' = IF streamDone THEN w ELSE "set"
         /\ UNCHANGED <<streamQueue, delivered>>

\* the consumer calls next(): the first time, or after it has taken a message
ConsumerNext ==
    /\ genPc \in {"start", "yielded"}
    /\ RunLoop(waiting)
    /\ UNCHANGED <<streamDone, pushes, pushedBeforeEnd, wakeups>>
    /\ UNCHANGED exceptStream

\* the continuation of the await: `this.waiting = null`, then the loop again
Continue ==
    /\ genPc = "woken"
    /\ RunLoop("null")
    /\ wakeups' = wakeups + 1
    /\ UNCHANGED <<streamDone, pushes, pushedBeforeEnd>>
    /\ UNCHANGED exceptStream

StreamInit ==
    /\ StreamIdle
    /\ OlderIdle
    /\ TransferIdle
    /\ AgentIdle
    /\ DiagnosisIdle
    /\ RequestIdle
    /\ DiscordIdle
    /\ ToolIdle
    /\ IdleRunIdle
    /\ LoopIdle
    /\ GuardIdle
    /\ CallsIdle
    /\ TypingIdle
    /\ WebIdle

StreamNext ==
    \/ Push
    \/ End
    \/ ConsumerNext
    \/ Continue

\* the consumer keeps iterating and a resolved promise runs its continuation
StreamSpec ==
    /\ StreamInit
    /\ [][StreamNext]_vars
    /\ WF_vars(ConsumerNext)
    /\ WF_vars(Continue)

\* the texts 1..n in push order
FirstTexts(n) == [i \in 1..n |-> i]

\* C40: MessageStream delivers every text pushed before end() to its consumer
\* exactly once and in push order, never leaves the consumer blocked while a
\* message is queued, and finishes after end() once the queue is empty.
C40_StreamDeliversInOrder ==
    /\ [](delivered \o streamQueue = FirstTexts(pushes))
    /\ [](genPc = "awaiting" => (streamQueue = <<>> /\ ~streamDone /\ waiting = "set"))
    /\ [](genPc = "returned" => (streamDone /\ Len(delivered) >= pushedBeforeEnd))
    /\ \A n \in 1..MaxPushes : (pushedBeforeEnd >= n) ~> (Len(delivered) >= n)
    /\ streamDone ~> (genPc = "returned")

\* the consumer was blocked, a push woke it, end() came while a text was queued,
\* and the stream finished with everything delivered
C40_Witness ==
    /\ genPc = "returned"
    /\ wakeups >= 2
    /\ pushedBeforeEnd >= 2
    /\ Len(delivered) = pushes

====
